---- MODULE Spec2Model ----
(***************************************************************************)
(* Translation cache and quality-routing engine of the Telegram bot:       *)
(* TranslationCache (src/translation/cache.py), TranslationManager         *)
(* (src/translation/translation_manager.py) and the two analyzers that     *)
(* feed the routing decision (patterns.py, subculture.py).                 *)
(*                                                                         *)
(* Units.  Time is counted in days.  Quality scores are counted in tenths  *)
(* (0.9 is 9), pattern weights and context multipliers in tenths, so a     *)
(* final intensity is in hundredths (3.0 is 300).                          *)
(* A text is the sequence of its whitespace-separated words.  Chinese      *)
(* words are written in pinyin; WordChars and WordCjk give the number of   *)
(* characters and of CJK code points of the word they stand for.           *)
(***************************************************************************)
EXTENDS Integers, Sequences, FiniteSets, TLC

----------------------------------------------------------------------------
(* Bounds of the model *)

MaxNow == 30
MaxUseCount == 2
MaxRows == 1
MaxTokens == 1

(* Concurrent requests: coroutines in flight together, requests started in
   all, and the last day *)
MaxProcs == 2
MaxRequests == 3
MaxConcNow == 40

(* Calls of the pure functions: words of an analysed text, cache keys
   computed *)
MaxProbeLen == 6
MaxKeys == 2

(* Words of a text given to the register analyzer *)
MaxRegLen == 3

(* Cache operations and statistics calls: the last day *)
MaxStatNow == 40

(* Cache operations that call _get_connection *)
MaxLazyProcs == 3

(* Chat tables: the largest absolute chat id and the tables created *)
MaxChatId == 12
MaxTables == 2

(* Coroutines that use DatabaseManager.get_connection *)
MaxPoolUsers == 6

(* Rate limiter: the last tick of the clock and the calls made in all *)
MaxLimNow == 5
MaxLimCalls == 5

(* Time advances in steps of fifteen days. *)
TimeSteps == {15}

----------------------------------------------------------------------------
(* Generic helpers *)

RECURSIVE SumSeq(_)
SumSeq(s) == IF s = << >> THEN 0 ELSE Head(s) + SumSeq(Tail(s))

RECURSIVE SumOver(_, _)
SumOver(S, f) ==
    IF S = {} THEN 0
    ELSE LET e == CHOOSE e \in S : TRUE IN f[e] + SumOver(S \ {e}, f)

Min(a, b) == IF a < b THEN a ELSE b
Max(a, b) == IF a > b THEN a ELSE b

----------------------------------------------------------------------------
(* Words and texts *)

(* 想你 *)
W_xiangni == "xiangni"
(* 想你想你想awsl *)
W_xiangni_awsl == "xiangnixiangnixiangawsl"
(* 想你想你想你想你!! *)
W_xiangni_tone == "xiangnixiangnixiangnixiangni!!"

(* 一起, 约茶, 按摩, 本地 *)
W_yiqi == "yiqi"
W_yuecha == "yuecha"
W_anmo == "anmo"
W_bendi == "bendi"

ChineseWords == {W_xiangni, W_xiangni_awsl}

WordChars(w) ==
    CASE w = W_xiangni -> 2
      [] w = W_xiangni_awsl -> 9
      [] w = W_xiangni_tone -> 10
      [] w \in {W_yiqi, W_yuecha, W_anmo, W_bendi} -> 2
      [] OTHER -> Len(w)

WordCjk(w) ==
    CASE w = W_xiangni -> 2
      [] w = W_xiangni_awsl -> 5
      [] w = W_xiangni_tone -> 8
      [] w \in {W_yiqi, W_yuecha, W_anmo, W_bendi} -> 2
      [] OTHER -> 0

T_example == <<"I", "really", "need", "you", "right", "now">>
T_sensations == <<"soft", "warm", "wet", "hot">>
T_five == <<"one", "two", "three", "four", "five">>
T_mood == <<W_xiangni>>
T_slang == <<W_xiangni_awsl>>

SampleTexts == {T_example, T_sensations, T_five, T_mood, T_slang}

ContextTypes == {"private", "group"}

RECURSIVE TextString(_)
TextString(text) ==
    IF text = << >> THEN ""
    ELSE IF Len(text) = 1 THEN text[1]
    ELSE text[1] \o " " \o TextString(Tail(text))

(* len(text.split()) *)
WordCount(text) == Len(text)

(* len(text.strip()): the characters of the words and the single spaces
   between them *)
TotalChars(text) ==
    SumSeq([i \in 1..Len(text) |-> WordChars(text[i])]) + Max(Len(text) - 1, 0)

ChineseChars(text) == SumSeq([i \in 1..Len(text) |-> WordCjk(text[i])])

(* chinese_chars / max(total_chars, 1) > 0.5 *)
IsChinese(text) == 2 * ChineseChars(text) > Max(TotalChars(text), 1)

(* detect_language of handlers.py: the spaces are not counted *)
detect_language(text) ==
    IF 2 * ChineseChars(text) > SumSeq([i \in 1..Len(text) |-> WordChars(text[i])])
    THEN "zh" ELSE "en"

(* handle_message translates a Chinese message to English and an English
   one to Chinese. *)
TargetLang(source_lang) == IF source_lang = "zh" THEN "en" ELSE "zh"

----------------------------------------------------------------------------
(* IntensityAnalyzer (patterns.py) *)

(* The alternatives of each English pattern; \b...\b makes a match a whole
   word. *)
en_patterns ==
    [intensifiers |-> {"very", "really", "so", "quite", "extremely"},
     emotions     |-> {"want", "need", "desire", "crave", "yearn"},
     sensations   |-> {"soft", "smooth", "wet", "warm", "hot", "tight"},
     actions      |-> {"caress", "stroke", "touch", "rub", "massage"},
     states       |-> {"trembling", "shaking", "quivering", "throbbing"},
     intimacy     |-> {"intimate", "close", "personal", "private"},
     relationship |-> {"lover", "baby", "darling", "dear"},
     location     |-> {"bedroom", "bed", "sheets", "blanket"},
     time         |-> {"night", "evening", "moment", "forever"}]

CnPatternTypes ==
    {"kaomoji", "emoji_text", "internet_slang", "tone_markers",
     "intensity_chars", "emotion_chars", "physical_desc", "state_desc",
     "action_desc", "relationship", "intimacy", "metaphors"}

(* Matches of a Chinese pattern in one word.  The character classes of
   cn_patterns are stored in the source file as doubly encoded bytes, so
   they match no CJK code point; the ASCII alternatives of internet_slang
   (awsl, xswl, yyds) and of tone_markers (!!, ??, ...) match as written. *)
CnWordMatches(ptype, w) ==
    CASE ptype = "internet_slang" /\ w = W_xiangni_awsl -> 1
      [] ptype = "tone_markers" /\ w = W_xiangni_tone -> 1
      [] OTHER -> 0

PatternTypes(is_chinese) ==
    IF is_chinese THEN CnPatternTypes ELSE DOMAIN en_patterns

(* len(re.findall(pattern, text)) *)
PatternMatches(is_chinese, ptype, text) ==
    IF is_chinese
    THEN SumSeq([i \in 1..Len(text) |-> CnWordMatches(ptype, text[i])])
    ELSE Cardinality({i \in 1..Len(text) : text[i] \in en_patterns[ptype]})

(* A weight table in which every pattern weighs 2.0 *)
_get_pattern_weight_heavy(pattern_type) == 20

_get_pattern_weight(pattern_type) ==
    CASE pattern_type = "kaomoji" -> 3
      [] pattern_type = "emoji_text" -> 3
      [] pattern_type = "tone_markers" -> 5
      [] pattern_type = "intensity_chars" -> 8
      [] pattern_type = "emotion_chars" -> 7
      [] pattern_type = "physical_desc" -> 10
      [] pattern_type = "state_desc" -> 9
      [] pattern_type = "action_desc" -> 10
      [] pattern_type = "relationship" -> 8
      [] pattern_type = "intimacy" -> 10
      [] pattern_type = "metaphors" -> 9
      [] pattern_type = "intensifiers" -> 6
      [] pattern_type = "emotions" -> 7
      [] pattern_type = "sensations" -> 9
      [] pattern_type = "actions" -> 8
      [] pattern_type = "states" -> 7
      [] pattern_type = "location" -> 5
      [] pattern_type = "time" -> 4
      [] OTHER -> 5

context_multipliers(context_type) ==
    CASE context_type = "private" -> 12
      [] context_type = "group" -> 8
      [] context_type = "public" -> 6
      [] OTHER -> 10

(* base_intensity, in tenths *)
BaseIntensity(text) ==
    LET zh == IsChinese(text)
        types == PatternTypes(zh)
    IN SumOver(types,
               [p \in types |-> PatternMatches(zh, p, text) * _get_pattern_weight(p)])

(* A clamp at 10 instead of 5 *)
IntensityCap_ten == 10 * 100

(* The clamp min(5, ...), in hundredths *)
IntensityCap == 500

analyze_intensity(text, context_type) ==
    LET base == BaseIntensity(text)
        mult == context_multipliers(context_type)
    IN [raw_intensity |-> base,
        context_multiplier |-> mult,
        final_intensity |-> Min(IntensityCap, base * mult),
        language |-> IF IsChinese(text) THEN "zh" ELSE "en"]

----------------------------------------------------------------------------
(* SubcultureSlangHandler (subculture.py) *)

SubPatternNames ==
    [dating   |-> {"meetup", "availability", "interest", "personal"},
     intimate |-> {"hints", "mood", "invitation", "status"},
     service  |-> {"type", "style", "experience"},
     location |-> {"area", "venue", "transport"}]

(* Matches of one compiled sub-pattern in one word: 想你 matches mood once,
   想你想你想awsl matches it twice, 想你想你想你想你!! four times; 一起
   matches invitation, 约茶 meetup, 按摩 type and 本地 area. *)
SubWordMatches(category, name, w) ==
    CASE category = "intimate" /\ name = "mood" /\ w = W_xiangni -> 1
      [] category = "intimate" /\ name = "mood" /\ w = W_xiangni_awsl -> 2
      [] category = "intimate" /\ name = "mood" /\ w = W_xiangni_tone -> 4
      [] category = "intimate" /\ name = "invitation" /\ w = W_yiqi -> 1
      [] category = "dating" /\ name = "meetup" /\ w = W_yuecha -> 1
      [] category = "service" /\ name = "type" /\ w = W_anmo -> 1
      [] category = "location" /\ name = "area" /\ w = W_bendi -> 1
      [] OTHER -> 0

(* len(pattern.findall(text)) *)
SubMatches(category, name, text) ==
    SumSeq([i \in 1..Len(text) |-> SubWordMatches(category, name, text[i])])

context_intensity ==
    [dating |-> 7, intimate |-> 10, service |-> 8, location |-> 6]

(* category_matches: the sub-pattern names of the category that matched *)
CategoryMatches(category, text) ==
    {n \in SubPatternNames[category] : SubMatches(category, n, text) > 0}

(* The aggregate intensity as the fraction num / (10 * den); den = 0 stands
   for "nothing matched", where the code leaves the intensity at 0. *)
analyze_text(text) ==
    LET cats == DOMAIN SubPatternNames
        matched == {c \in cats : CategoryMatches(c, text) # {}}
        total == SumOver(cats,
                   [c \in cats |->
                      SumOver(SubPatternNames[c],
                              [n \in SubPatternNames[c] |-> SubMatches(c, n, text)])])
        num == SumOver(matched,
                   [c \in matched |->
                      Cardinality(CategoryMatches(c, text)) * context_intensity[c]])
    IN [categories |-> matched, num |-> num, total_matches |-> total]

(* subculture_analysis['intensity'] > 0.5 *)
SubIntensityAboveHalf(sub) ==
    sub.total_matches > 0 /\ sub.num > 5 * sub.total_matches

----------------------------------------------------------------------------
(* Configuration (config.py) *)

(* [TRANSLATION_MIN_QUALITY, TRANSLATION_CACHE_DAYS] settings the process
   may be started with: the defaults (0.9, 30 days) and a setting with a
   low threshold and a short retention; validate_quality admits 0.0 .. 1.0
   and validate_cache_days admits 1 .. 90. *)
Configs ==
    {[TRANSLATION_MIN_QUALITY |-> 9, TRANSLATION_CACHE_DAYS |-> 30],
     [TRANSLATION_MIN_QUALITY |-> 1, TRANSLATION_CACHE_DAYS |-> 10]}

validate_quality(v) == 0 <= v /\ v <= 10
validate_cache_days(v) == 1 <= v /\ v <= 90

----------------------------------------------------------------------------
(* State *)

VARIABLES
    now,            \* datetime.now(), in days
    table,          \* the rows of the translations table (persisted)
    connection,     \* TranslationCache._connection is not None
    config,         \* get_config(), fixed for the life of the process
    total_tokens,   \* TranslationManager.total_tokens
    pc,             \* position of the translate request in flight
    args,           \* its arguments
    loc,            \* its local variables
    trace,          \* history: backend and cache calls made by the request
    live,           \* history: the rows of the request's key that were inside
                    \* the retention window when its lookup ran
    result,         \* the value translate returned
    prev,           \* history: the previous request, if it returned a model
                    \* result and nothing happened since
    total_cost,     \* TranslationManager.total_cost, in hundred-thousandths
    cpc,            \* concurrent requests: position of each request
    cargs,          \* concurrent requests: arguments of each request
    cloc,           \* concurrent requests: local variables of each request
    cresult,        \* concurrent requests: the value each request returned
    hist,           \* concurrent requests: history of the calls made
    probe,          \* analyzer calls: the text analysed and the analyses
    keys,           \* cache key calls: the keys computed so far
    reg,            \* register analyzer calls: the text and its analysis
    stat,           \* statistics calls: the outcome of the last call
    lazy,           \* TranslationCache._get_connection calls in flight
    limiter,        \* RateLimiter: clock, _rate_limits and the calls made
    pool,           \* DatabaseManager: _connection_pool and its users
    names           \* DatabaseManager: the chat tables and the ids read back

(* The variables of one translate request at a time *)
seqVars == <<pc, args, loc, trace, live, result, prev>>

(* The variables of the concurrent requests *)
concVars == <<cpc, cargs, cloc, cresult, hist>>

(* The variables of the calls of the pure functions *)
pureVars == <<probe, keys>>
auxVars == <<reg, stat, lazy, limiter, pool, names>>

vars == <<now, table, connection, config, total_tokens, total_cost, pc, args, loc,
          trace, live, result, prev, cpc, cargs, cloc, cresult, hist, probe,
          keys, reg, stat, lazy, limiter, pool, names>>

NoArgs == [text |-> << >>, source_lang |-> "", target_lang |-> "",
           context_type |-> ""]
NoLoc == [cached |-> << >>, translation |-> << >>, quality_score |-> 0,
          translation_source |-> "", use_gpt |-> FALSE]
NoResult == [translation |-> << >>, source |-> "", quality_score |-> 0]

----------------------------------------------------------------------------
(* TranslationCache (cache.py) *)

(* timedelta(days=30) of get_cached_translation *)
RetentionDays == 30
(* timedelta(days=7) of cleanup *)
SingleUseDays == 7
(* A column default of 0 *)
DefaultUseCount_zero == 1 - 1

(* use_count INTEGER DEFAULT 1 *)
DefaultUseCount == 1
(* cleanup(self, max_days: int = 30) *)
DefaultMaxDays == 30

(* md5 of the concatenation text + source_lang + target_lang; the digest is
   modelled as the string it is computed from, that is md5 is taken to be
   free of collisions. *)
_get_text_hash(text, source_lang, target_lang) ==
    TextString(text) \o source_lang \o target_lang

(* SELECT ... WHERE text_hash = ? AND last_used > now - 30 days *)
SelectLive(tbl, text_hash, t) ==
    {r \in tbl : r.text_hash = text_hash /\ r.last_used > t - RetentionDays}

(* A hit that writes back the count it read when the row was stored *)
UpdateHit_read_modify_write(tbl, text_hash, t) ==
    {IF r.text_hash = text_hash
     THEN [r EXCEPT !.use_count = 2, !.last_used = t]
     ELSE r : r \in tbl}

(* A hit that writes a row of its own when the row it read is gone *)
UpdateHit_upsert(tbl, text_hash, t) ==
    IF \E r \in tbl : r.text_hash = text_hash
    THEN {IF r.text_hash = text_hash
          THEN [r EXCEPT !.use_count = @ + 1, !.last_used = t]
          ELSE r : r \in tbl}
    ELSE tbl \cup {[text_hash |-> text_hash, original_text |-> << >>,
                    translated_text |-> << >>, source_lang |-> "",
                    target_lang |-> "", quality_score |-> 0, use_count |-> 1,
                    last_used |-> t, created_at |-> t]}

(* UPDATE ... SET use_count = use_count + 1, last_used = now
   WHERE text_hash = ? *)
UpdateHit(tbl, text_hash, t) ==
    {IF r.text_hash = text_hash
     THEN [r EXCEPT !.use_count = @ + 1, !.last_used = t]
     ELSE r : r \in tbl}

(* The row store_translation writes: use_count and created_at are not in
   the column list and take their defaults. *)
NewRow(text, translation, source_lang, target_lang, quality_score, t) ==
    [text_hash |-> _get_text_hash(text, source_lang, target_lang),
     original_text |-> text,
     translated_text |-> translation,
     source_lang |-> source_lang,
     target_lang |-> target_lang,
     quality_score |-> quality_score,
     use_count |-> DefaultUseCount,
     last_used |-> t,
     created_at |-> t]

(* A store that keeps only translations of quality 0.5 and more *)
InsertOrReplace_quality_gated(tbl, row) ==
    IF row.quality_score >= 5
    THEN {r \in tbl : r.text_hash # row.text_hash} \cup {row}
    ELSE tbl

(* INSERT OR IGNORE: the first row written for a key stays *)
InsertOrReplace_first_wins(tbl, row) ==
    IF \E r \in tbl : r.text_hash = row.text_hash THEN tbl ELSE tbl \cup {row}

(* An upsert that counts the store as a use of the row it overwrites *)
InsertOrReplace_counting(tbl, row) ==
    {r \in tbl : r.text_hash # row.text_hash}
    \cup (IF \E r \in tbl : r.text_hash = row.text_hash
          THEN {[row EXCEPT !.use_count = o.use_count + 1] :
                   o \in {r \in tbl : r.text_hash = row.text_hash}}
          ELSE {row})

(* INSERT OR REPLACE on the primary key text_hash *)
InsertOrReplace(tbl, row) ==
    {r \in tbl : r.text_hash # row.text_hash} \cup {row}

(* A cleanup with the staleness rule only *)
CleanupDelete_stale_only(tbl, t, max_days) ==
    {r \in tbl : ~(r.last_used < t - max_days)}

(* DELETE ... WHERE last_used < now - max_days
               OR (use_count = 1 AND created_at < now - 7 days) *)
CleanupDelete(tbl, t, max_days) ==
    {r \in tbl : ~(\/ r.last_used < t - max_days
                   \/ (r.use_count = 1 /\ r.created_at < t - SingleUseDays))}

(* A cleanup that opens the connection it needs *)
cleanup_opening(tbl, conn, t, max_days) == CleanupDelete(tbl, t, max_days)

(* TranslationCache.cleanup: the DELETE is executed only "if
   self._connection" *)
cleanup(tbl, conn, t, max_days) ==
    IF conn THEN CleanupDelete(tbl, t, max_days) ELSE tbl

(* SUM(use_count) of the rows: NULL (no value) over no rows *)
SqlSum(tbl) ==
    IF tbl = {} THEN << >>
    ELSE <<SumOver(tbl, [r \in tbl |-> r.use_count])>>

(* TranslationCache._get_cache_stats: the aggregates of the one row the
   SELECT returns, and hit_rate = row[3] / max(row[0], 1) as the fraction
   num / den; dividing None raises TypeError. *)
_get_cache_stats(tbl, t) ==
    LET total_entries == Cardinality(tbl)
        total_uses == SqlSum(tbl)
    IN IF total_uses = << >>
       THEN [raised |-> "TypeError"]
       ELSE [raised |-> "",
             total_entries |-> total_entries,
             total_uses |-> total_uses[1],
             active_entries |-> Cardinality({r \in tbl : r.last_used > t - 7}),
             hit_rate |-> [num |-> total_uses[1], den |-> Max(total_entries, 1)]]

(* The dict get_cached_translation returns for a fetched row *)
CachedDict(row) ==
    [translation |-> row.translated_text,
     quality_score |-> row.quality_score,
     cache_hits |-> row.use_count]

----------------------------------------------------------------------------
(* TranslationManager.translate (translation_manager.py) *)

GptOutput(text) == <<"[gpt]">> \o text
GoogleOutput(text) == <<"[google]">> \o text

(* response.usage.total_tokens of one model call *)
TokenUsages == {1}

(* (total_tokens / 1000) * 0.01: the cost of one token, in
   hundred-thousandths *)
CostRate == 1

(* A counter that keeps the last usage only *)
AddUsage_overwrite(counter, amount) == amount

(* counter += amount, executed without suspension once the awaited response
   is there *)
AddUsage(counter, amount) == counter + amount

(* The cache test with > in place of >= *)
CacheAccepted_strict(cached, min_quality) ==
    cached # << >> /\ cached[1].quality_score > min_quality

(* if cached and cached['quality_score'] >= config.TRANSLATION_MIN_QUALITY *)
CacheAccepted(cached, min_quality) ==
    cached # << >> /\ cached[1].quality_score >= min_quality

(* The route test with the word count compared by >= *)
UseGpt_off_by_one(text, context_type) ==
    \/ analyze_intensity(text, context_type).final_intensity > 300
    \/ SubIntensityAboveHalf(analyze_text(text))
    \/ WordCount(text) >= 5

(* use_gpt: final_intensity > 3 or intensity > 0.5 or more than 5 words *)
UseGpt(text, context_type) ==
    \/ analyze_intensity(text, context_type).final_intensity > 300
    \/ SubIntensityAboveHalf(analyze_text(text))
    \/ WordCount(text) > 5

(* A model result rated like a fast one *)
GptQuality_below(min_quality) == min_quality - 1

(* quality_score assigned after a model call *)
GptQuality(min_quality) == min_quality

(* A fast result rated at the minimum *)
GoogleQuality_at_minimum(min_quality) == min_quality

(* quality_score assigned after a fast call *)
GoogleQuality(min_quality) == min_quality - 1

(* A quality gate that never escalates *)
NeedsEscalation_never(quality_score, min_quality) == FALSE

(* if quality_score < config.TRANSLATION_MIN_QUALITY: escalate *)
NeedsEscalation(quality_score, min_quality) == quality_score < min_quality

(* A quality gate that runs the primary attempt again *)
AfterPrimary_retry(quality_score, min_quality) ==
    IF quality_score < min_quality THEN "gpt_primary" ELSE "store"

(* Where control goes after the primary attempt produced a translation *)
AfterPrimary(quality_score, min_quality) ==
    IF NeedsEscalation(quality_score, min_quality) THEN "escalate" ELSE "store"

(* Where an exception raised inside the try block lands: the outer except
   handler. *)
OuterExcept == "emergency"

CacheResult(cached) ==
    [translation |-> cached[1].translation,
     source |-> "cache",
     quality_score |-> cached[1].quality_score]

NormalResult(l) ==
    [translation |-> l.translation,
     source |-> l.translation_source,
     quality_score |-> l.quality_score]

EmergencyResult(text, min_quality) ==
    [translation |-> GoogleOutput(text),
     source |-> "google_emergency",
     quality_score |-> min_quality - 2]

(* A failed result that returns no text *)
FailedResult_empty(text) ==
    [translation |-> << >>, source |-> "failed", quality_score |-> 0]

FailedResult(text) ==
    [translation |-> text, source |-> "failed", quality_score |-> 0]

(* An emergency handler that lets the failure of its own call escape *)
EmergencyOutcome_reraise(ok, text, min_quality) ==
    [pc |-> IF ok THEN "done" ELSE "raised",
     result |-> IF ok THEN EmergencyResult(text, min_quality)
                ELSE [translation |-> << >>, source |-> "", quality_score |-> 0]]

(* Outcome of the emergency handler: the position reached and the value
   returned *)
EmergencyOutcome(ok, text, min_quality) ==
    [pc |-> "done",
     result |-> IF ok THEN EmergencyResult(text, min_quality)
                ELSE FailedResult(text)]

----------------------------------------------------------------------------
(* History helpers *)

Count(tr, events) == Cardinality({i \in 1..Len(tr) : tr[i] \in events})

GptCalls == Count(trace, {"gpt_ok", "gpt_fail"})
GoogleCalls == Count(trace, {"google_ok", "google_fail"})
BackendEvents == {"gpt_ok", "gpt_fail", "google_ok", "google_fail"}
BackendTrace == SelectSeq(trace, LAMBDA e : e \in BackendEvents)
CacheFault == Count(trace, {"select_fail", "update_fail", "store_fail"}) > 0

Key == _get_text_hash(args.text, args.source_lang, args.target_lang)

----------------------------------------------------------------------------
(* Values of the variables of the concurrent requests and of the pure
   function calls while nothing of the kind is going on *)

(* The coroutines that may run translate at the same time *)
Procs == 1..MaxProcs

(* The default configuration: TRANSLATION_MIN_QUALITY 0.9,
   TRANSLATION_CACHE_DAYS 30 *)
DefaultConfig == [TRANSLATION_MIN_QUALITY |-> 9, TRANSLATION_CACHE_DAYS |-> 30]

(* The texts of the concurrent requests: one routed to the model backend,
   one to the fast backend *)
ConcTexts == {T_example, T_five}

(* The local variables of translate, with three history flags: the lookup
   returned None, the store was executed, the row fetched by the lookup was
   no longer there when the UPDATE ran *)
NoCLoc == [cached |-> << >>, translation |-> << >>, quality_score |-> 0,
           translation_source |-> "", use_gpt |-> FALSE,
           missed |-> FALSE, stored |-> FALSE, gone |-> FALSE]

(* History of the concurrent requests:
   started     requests started so far
   usage       sum of the usages reported by the model calls of this process
   calls       model calls of this process that returned
   overlap     a model call returned while another one was awaited
   hits        per text, hit UPDATEs executed since the row was last stored
   touched     per text, the day of the last store or hit UPDATE
   raced       per text, a hit UPDATE ran while another hit on the text was
               between its SELECT and its UPDATE
   last_store  per text, the translation and quality of the last store
   sweep       the cleanup just executed: the table before and after *)
NoHist ==
    [started |-> 0, usage |-> 0, calls |-> 0, overlap |-> FALSE,
     hits |-> [t \in ConcTexts |-> 0],
     touched |-> [t \in ConcTexts |-> 0],
     raced |-> [t \in ConcTexts |-> FALSE],
     last_store |-> [t \in ConcTexts |-> << >>],
     sweep |-> << >>]

IdleConc ==
    /\ cpc = [p \in Procs |-> "idle"]
    /\ cargs = [p \in Procs |-> NoArgs]
    /\ cloc = [p \in Procs |-> NoCLoc]
    /\ cresult = [p \in Procs |-> NoResult]
    /\ hist = NoHist

(* An analyzer call not made yet: the text, the context type, the analysis
   returned for the text, the analysis returned before the last word was
   appended, and the number of pattern matches in that word *)
NoProbe == [text |-> << >>, context_type |-> "", analysis |-> << >>,
            before |-> << >>, added |-> 0]

IdlePure ==
    /\ probe = NoProbe
    /\ keys = {}

(* A register analyzer call not made yet: the text and its analysis *)
NoReg == [text |-> << >>, analysis |-> << >>]

(* No statistics call made yet *)
NoStat == << >>

(* TranslationCache before its first use: no _get_connection call in
   flight, _connection None (0), no connection opened, the translations
   table not created, no query issued before the table existed *)
LazyProcs == 1..MaxLazyProcs

NoLazy == [pc |-> [p \in LazyProcs |-> "idle"],
           connection |-> 0,
           opened |-> 0,
           returned |-> [p \in LazyProcs |-> 0],
           tables |-> FALSE,
           early |-> FALSE]

(* DEFAULT_RATE_LIMIT = 2 actions per DEFAULT_RATE_WINDOW = 1 second; the
   clock ticks three times a second. *)
RateLimit == 2
RateWindow == 3

(* (chat_id, user_id) pairs: two users of one chat and one of another *)
Pairs == {<<1, 1>>, <<1, 2>>, <<2, 1>>}

(* A new RateLimiter: now is the clock, rate_limits the timestamps kept
   per pair (an absent key of the defaultdict is the empty list); history:
   admitted holds the times of all calls answered False, rejected whether a
   call of the pair was answered True, last the call just made, calls the
   number of calls. *)
NoLimiter == [now |-> 0,
              rate_limits |-> [k \in Pairs |-> << >>],
              admitted |-> [k \in Pairs |-> << >>],
              rejected |-> [k \in Pairs |-> FALSE],
              last |-> << >>,
              calls |-> 0]

PoolUsers == 1..MaxPoolUsers

(* self._max_connections = 5 *)
max_connections == 5

(* A new DatabaseManager: in_use[i] is the flag of the i-th connection put
   into _connection_pool (empty at first), lock the coroutine inside "async
   with self._pool_lock" while it is suspended there (0: none), pc the
   position of each coroutine, conn the connection it was given, exc
   whether its body ended with an exception; history: refused is the pool
   as it was when "Connection pool exhausted" was last raised. *)
NoPool == [in_use |-> << >>,
           lock |-> 0,
           pc |-> [u \in PoolUsers |-> "idle"],
           conn |-> [u \in PoolUsers |-> 0],
           exc |-> [u \in PoolUsers |-> FALSE],
           refused |-> << >>]

(* A new user database: no chat table; history: chats holds the chat ids
   whose table was created, ids the value the last get_all_chat_ids call
   returned. *)
NoNames == [tables |-> {}, chats |-> {}, ids |-> << >>]

IdleAux ==
    /\ reg = NoReg
    /\ stat = NoStat
    /\ lazy = NoLazy
    /\ limiter = NoLimiter
    /\ pool = NoPool
    /\ names = NoNames

----------------------------------------------------------------------------
(* Initial state: a fresh process on an empty database *)

Init ==
    /\ now = 0
    /\ table = {}
    /\ connection = FALSE
    /\ config \in Configs
    /\ total_tokens = 0
    /\ total_cost = 0
    /\ pc = "idle"
    /\ args = NoArgs
    /\ loc = NoLoc
    /\ trace = << >>
    /\ live = {}
    /\ result = NoResult
    /\ prev = << >>
    /\ IdleConc
    /\ IdlePure
    /\ IdleAux

----------------------------------------------------------------------------
(* Actions *)

(* translate(text, source_lang, target_lang, context_type) is called. *)
Translate(text, source_lang, target_lang, context_type) ==
    LET h == _get_text_hash(text, source_lang, target_lang) IN
    /\ pc = "idle"
    /\ \/ \E r \in table : r.text_hash = h
       \/ Cardinality(table) < MaxRows
    /\ \A r \in table : r.text_hash = h => r.use_count < MaxUseCount
    /\ pc' = "get_cached"
    /\ args' = [text |-> text, source_lang |-> source_lang,
                target_lang |-> target_lang, context_type |-> context_type]
    /\ loc' = NoLoc
    /\ trace' = << >>
    /\ live' = {}
    /\ result' = NoResult
    /\ UNCHANGED <<now, table, connection, config, total_tokens, total_cost, prev>>
    /\ UNCHANGED <<concVars, pureVars, auxVars>>

(* Lines 61-72 of translate: the analyses and the choice of the primary
   backend; synchronous, so part of the step that reaches them. *)
Route(l) ==
    LET g == UseGpt(args.text, args.context_type) IN
    [pc |-> IF g THEN "gpt_primary" ELSE "google_primary",
     loc |-> [l EXCEPT !.use_gpt = g]]

(* get_cached_translation up to fetchone(): open the connection on first
   use and run the SELECT.  A miss returns None to translate, which goes on
   to the analyses. *)
CacheSelect ==
    /\ pc = "get_cached"
    /\ \/ /\ connection' = TRUE
          /\ LET rows == SelectLive(table, Key, now) IN
             IF rows # {}
             THEN /\ loc' = [loc EXCEPT !.cached = <<CHOOSE r \in rows : TRUE>>]
                  /\ pc' = "cache_update"
                  /\ trace' = Append(trace, "hit")
             ELSE /\ loc' = Route(loc).loc
                  /\ pc' = Route(loc).pc
                  /\ trace' = Append(trace, "miss")
       \/ /\ pc' = OuterExcept
          /\ trace' = Append(trace, "select_fail")
          /\ UNCHANGED <<connection, loc>>
    /\ live' = {r \in table : r.text_hash = Key /\ now - r.last_used < RetentionDays}
    /\ UNCHANGED <<now, table, config, total_tokens, total_cost, args, result, prev>>
    /\ UNCHANGED <<concVars, pureVars, auxVars>>

(* get_cached_translation after a hit: the UPDATE and commit, then the
   return of the fetched values; translate returns them when the quality
   passes, and goes on to the analyses otherwise. *)
CacheUpdate ==
    /\ pc = "cache_update"
    /\ \/ /\ table' = UpdateHit(table, Key, now)
          /\ trace' = Append(trace, "update_ok")
          /\ LET cached == <<CachedDict(loc.cached[1])>> IN
             IF CacheAccepted(cached, config.TRANSLATION_MIN_QUALITY)
             THEN /\ result' = CacheResult(cached)
                  /\ pc' = "done"
                  /\ loc' = loc
             ELSE /\ loc' = Route(loc).loc
                  /\ pc' = Route(loc).pc
                  /\ result' = result
       \/ /\ pc' = OuterExcept
          /\ trace' = Append(trace, "update_fail")
          /\ UNCHANGED <<table, loc, result>>
    /\ UNCHANGED <<now, connection, config, total_tokens, total_cost, args, live, prev>>
    /\ UNCHANGED <<concVars, pureVars, auxVars>>

(* _gpt_translate succeeded: the usage is added to the counters. *)
GptSuccess(next_pc) ==
    /\ \E u \in TokenUsages :
          /\ total_tokens + u <= MaxTokens
          /\ total_tokens' = AddUsage(total_tokens, u)
          /\ total_cost' = AddUsage(total_cost, u * CostRate)
    /\ loc' = [loc EXCEPT !.translation = GptOutput(args.text),
                          !.quality_score = GptQuality(config.TRANSLATION_MIN_QUALITY),
                          !.translation_source = "gpt"]
    /\ trace' = Append(trace, "gpt_ok")
    /\ pc' = next_pc

(* _google_translate succeeded. *)
GoogleSuccess ==
    /\ loc' = [loc EXCEPT !.translation = GoogleOutput(args.text),
                          !.quality_score = GoogleQuality(config.TRANSLATION_MIN_QUALITY),
                          !.translation_source = "google"]
    /\ trace' = Append(trace, "google_ok")
    /\ pc' = AfterPrimary(GoogleQuality(config.TRANSLATION_MIN_QUALITY),
                          config.TRANSLATION_MIN_QUALITY)

(* Lines 73-83: the model backend as primary attempt; its failure is caught
   by the inner except, which calls the fast backend. *)
GptPrimary ==
    /\ pc = "gpt_primary"
    /\ \/ GptSuccess(AfterPrimary(GptQuality(config.TRANSLATION_MIN_QUALITY),
                                  config.TRANSLATION_MIN_QUALITY))
       \/ /\ pc' = "google_fallback"
          /\ trace' = Append(trace, "gpt_fail")
          /\ UNCHANGED <<loc, total_tokens, total_cost>>
    /\ UNCHANGED <<now, table, connection, config, args, live, result, prev>>
    /\ UNCHANGED <<concVars, pureVars, auxVars>>

(* Lines 84-88: the fast backend inside the inner except. *)
GoogleFallback ==
    /\ pc = "google_fallback"
    /\ \/ GoogleSuccess
       \/ /\ pc' = OuterExcept
          /\ trace' = Append(trace, "google_fail")
          /\ UNCHANGED loc
    /\ UNCHANGED <<now, table, connection, config, total_tokens, total_cost, args, live,
                   result, prev>>
    /\ UNCHANGED <<concVars, pureVars, auxVars>>

(* Lines 89-93: the fast backend as primary attempt. *)
GooglePrimary ==
    /\ pc = "google_primary"
    /\ \/ GoogleSuccess
       \/ /\ pc' = OuterExcept
          /\ trace' = Append(trace, "google_fail")
          /\ UNCHANGED loc
    /\ UNCHANGED <<now, table, connection, config, total_tokens, total_cost, args, live,
                   result, prev>>
    /\ UNCHANGED <<concVars, pureVars, auxVars>>

(* Lines 95-103: the model backend called because the quality is below the
   minimum. *)
Escalate ==
    /\ pc = "escalate"
    /\ \/ GptSuccess("store")
       \/ /\ pc' = OuterExcept
          /\ trace' = Append(trace, "gpt_fail")
          /\ UNCHANGED <<loc, total_tokens, total_cost>>
    /\ UNCHANGED <<now, table, connection, config, args, live, result, prev>>
    /\ UNCHANGED <<concVars, pureVars, auxVars>>

(* Lines 105-116: store_translation, then the return of the result. *)
Store ==
    /\ pc = "store"
    /\ \/ /\ connection' = TRUE
          /\ table' = InsertOrReplace(table,
                         NewRow(args.text, loc.translation, args.source_lang,
                                args.target_lang, loc.quality_score, now))
          /\ trace' = Append(trace, "store_ok")
          /\ result' = NormalResult(loc)
          /\ pc' = "done"
       \/ /\ pc' = OuterExcept
          /\ trace' = Append(trace, "store_fail")
          /\ UNCHANGED <<connection, table, result>>
    /\ UNCHANGED <<now, config, total_tokens, total_cost, args, live, loc, prev>>
    /\ UNCHANGED <<concVars, pureVars, auxVars>>

(* Lines 118-136: the outer except handler. *)
Emergency ==
    /\ pc = "emergency"
    /\ \E ok \in BOOLEAN :
          LET out == EmergencyOutcome(ok, args.text, config.TRANSLATION_MIN_QUALITY) IN
          /\ pc' = out.pc
          /\ result' = out.result
          /\ trace' = Append(trace, IF ok THEN "google_ok" ELSE "google_fail")
    /\ UNCHANGED <<now, table, connection, config, total_tokens, total_cost, args, live, loc, prev>>
    /\ UNCHANGED <<concVars, pureVars, auxVars>>

(* The caller has taken the result; the request is over. *)
Finish ==
    /\ pc = "done"
    /\ pc' = "idle"
    /\ prev' = IF result.source = "gpt"
               THEN <<[args |-> args, result |-> result]>>
               ELSE << >>
    /\ args' = NoArgs
    /\ loc' = NoLoc
    /\ trace' = << >>
    /\ live' = {}
    /\ result' = NoResult
    /\ UNCHANGED <<now, table, connection, config, total_tokens, total_cost>>
    /\ UNCHANGED <<concVars, pureVars, auxVars>>

(* TranslationCache.cleanup(max_days), run daily by the scheduler
   (main.py:156-160): nothing happens while the connection is not open. *)
Cleanup(max_days) ==
    /\ table' = cleanup(table, connection, now, max_days)
    /\ prev' = << >>
    /\ UNCHANGED <<now, connection, config, total_tokens, total_cost, pc, args, live, loc,
                   trace, result>>
    /\ UNCHANGED <<concVars, pureVars, auxVars>>

(* Time passes between requests. *)
Tick ==
    /\ pc = "idle"
    /\ \E d \in TimeSteps :
          /\ now + d <= MaxNow
          /\ now' = now + d
    /\ prev' = << >>
    /\ UNCHANGED <<table, connection, config, total_tokens, total_cost, pc, args, live, loc,
                   trace, result>>
    /\ UNCHANGED <<concVars, pureVars, auxVars>>

(* The process is restarted, possibly with another configuration: the
   manager and its cache object are constructed anew (main.py:75-79), the
   database file stays. *)
Restart ==
    /\ pc = "idle"
    /\ config' \in Configs
    /\ connection' = FALSE
    /\ total_tokens' = 0
    /\ total_cost' = 0
    /\ prev' = << >>
    /\ UNCHANGED <<now, table, pc, args, live, loc, trace, result>>
    /\ UNCHANGED <<concVars, pureVars, auxVars>>

Next ==
    \/ \E text \in SampleTexts, c \in ContextTypes :
          Translate(text, detect_language(text),
                    TargetLang(detect_language(text)), c)
    \/ CacheSelect
    \/ CacheUpdate
    \/ GptPrimary
    \/ GoogleFallback
    \/ GooglePrimary
    \/ Escalate
    \/ Store
    \/ Emergency
    \/ Finish
    \/ Cleanup(DefaultMaxDays)
    \/ Tick
    \/ Restart

Spec == Init /\ [][Next]_vars

TypeOK ==
    /\ now \in 0..MaxNow
    /\ connection \in BOOLEAN
    /\ config \in Configs
    /\ total_tokens \in 0..MaxTokens
    /\ pc \in {"idle", "get_cached", "cache_update", "gpt_primary",
               "google_fallback", "google_primary", "escalate", "store",
               "emergency", "done", "raised"}

----------------------------------------------------------------------------
(* Properties *)

MinQuality == config.TRANSLATION_MIN_QUALITY

FailureEvents == {"gpt_fail", "google_fail", "select_fail", "update_fail",
                  "store_fail"}

(* The position in the trace of the event after which the route is decided:
   a miss, or a hit that was fetched and then not accepted. *)
Routed == \E i \in 1..(Len(trace) - 1) : trace[i] \in {"miss", "update_ok"}
RouteIndex == CHOOSE i \in 1..(Len(trace) - 1) : trace[i] \in {"miss", "update_ok"}

(* The backend call that follows the route decision, "none" before it is
   made *)
PrimaryEvent == IF Routed THEN trace[RouteIndex + 1] ELSE "none"

(* The event after the primary call, "none" before it happens *)
SecondEvent ==
    IF Routed /\ Len(trace) >= RouteIndex + 2 THEN trace[RouteIndex + 2] ELSE "none"

(* C1: when at least one backend call was made during the request and every
   backend call made (model or fast) raised, translate does not raise and
   returns source "failed", the original text as translation and quality
   0.0. *)
C1_TotalFailureFallback ==
    (/\ pc \in {"done", "raised"}
     /\ BackendTrace # << >>
     /\ \A i \in 1..Len(BackendTrace) : BackendTrace[i] \in {"gpt_fail", "google_fail"})
    => /\ pc = "done"
       /\ result = [translation |-> args.text, source |-> "failed",
                    quality_score |-> 0]

C1_Witness ==
    /\ pc = "done"
    /\ BackendTrace = <<"gpt_fail", "google_fail", "google_fail">>
    /\ result.source = "failed"
    /\ result.translation = args.text

(* C2: translate never raises, whatever cache calls and backend calls fail:
   a request that is over has returned a result; and when a cache call
   failed during the request and no call of the fast backend did, the result
   is the fast backend's translation tagged google_emergency with quality
   minimum - 0.2. *)
C2_NeverRaises ==
    /\ pc # "raised"
    /\ pc = "done" =>
          result.source \in {"cache", "gpt", "google", "google_emergency", "failed"}
    /\ (pc = "done" /\ CacheFault /\ Count(trace, {"google_fail"}) = 0)
       => result = [translation |-> GoogleOutput(args.text),
                    source |-> "google_emergency",
                    quality_score |-> MinQuality - 2]

C2_Witness ==
    /\ pc = "done"
    /\ Count(trace, {"store_fail"}) = 1
    /\ result.source = "google_emergency"
    /\ result.quality_score = MinQuality - 2

(* C3: when the lookup of a request ran without raising and found, for the
   request's key, a row inside the retention window whose quality is at
   least the configured minimum, no backend is invoked during the request
   and the request returns that row's translation and quality tagged
   "cache". *)
C3_QualityGate ==
    \A r \in live :
       (/\ r.quality_score >= MinQuality
        /\ Count(trace, {"select_fail", "update_fail"}) = 0)
       => /\ BackendTrace = << >>
          /\ pc \in {"cache_update", "done"}
          /\ pc = "done" =>
                result = [translation |-> r.translated_text,
                          source |-> "cache",
                          quality_score |-> r.quality_score]

C3_Witness ==
    /\ pc = "done"
    /\ \E r \in live : r.quality_score >= MinQuality
    /\ result.source = "cache"
    /\ BackendTrace = << >>

(* C4: in a request whose primary attempt is the fast backend and succeeds
   (its quality, minimum - 0.1, is below the minimum), the model backend is
   invoked exactly once before translate returns, right after the fast
   call; when that call and the store succeed, the result is the model's
   translation with quality = minimum and source "gpt". *)
C4_EscalatesOnce ==
    (pc = "done" /\ PrimaryEvent = "google_ok")
    => /\ GptCalls = 1
       /\ SecondEvent \in {"gpt_ok", "gpt_fail"}
       /\ (SecondEvent = "gpt_ok" /\ ~CacheFault)
          => result = [translation |-> GptOutput(args.text),
                       source |-> "gpt",
                       quality_score |-> MinQuality]

C4_Witness ==
    /\ pc = "done"
    /\ PrimaryEvent = "google_ok"
    /\ GptCalls = 1
    /\ result.source = "gpt"

(* C5 (as claimed): when the primary attempt is the model backend, it fails
   and the fast fallback succeeds, translate returns the fast translation
   with quality minimum - 0.1 and the fast tag, and the model backend is
   invoked only that once. *)
C5_FallbackNotEscalated ==
    (pc = "done" /\ PrimaryEvent = "gpt_fail" /\ SecondEvent = "google_ok")
    => /\ GptCalls = 1
       /\ result = [translation |-> GoogleOutput(args.text),
                    source |-> "google",
                    quality_score |-> MinQuality - 1]

(* C6: the primary attempt uses the model backend exactly when the final
   intensity exceeds 3, or the register intensity exceeds 0.5, or the text
   has more than 5 words; otherwise it uses the fast backend. *)
(* The (text, context) pairs for which one of the three tests holds, as an
   explicit set, so that the tests are computed once and not in every
   state. *)
GptRouted ==
    CHOOSE routed \in SUBSET (SampleTexts \X ContextTypes) :
        routed = {tc \in SampleTexts \X ContextTypes :
                     \/ analyze_intensity(tc[1], tc[2]).final_intensity > 300
                     \/ LET sub == analyze_text(tc[1])
                        IN sub.total_matches > 0 /\ sub.num > 5 * sub.total_matches
                     \/ Len(tc[1]) > 5}

RouteCondition == <<args.text, args.context_type>> \in GptRouted

C6_RouteDecision ==
    /\ pc = "gpt_primary" => RouteCondition
    /\ pc = "google_primary" => ~RouteCondition
    /\ PrimaryEvent \in {"gpt_ok", "gpt_fail"} => RouteCondition
    /\ PrimaryEvent \in {"google_ok", "google_fail"} => ~RouteCondition

C6_Witness ==
    /\ PrimaryEvent = "google_ok"
    /\ args.text = T_five
    /\ ~RouteCondition

(* C7 (as claimed): every request that returns a translation obtained from
   a backend has stored the final (text, translation, quality_score) in the
   cache before returning, whatever the quality. *)
StoredFinal ==
    /\ Count(trace, {"store_ok"}) = 1
    /\ \E r \in table :
          /\ r.text_hash = Key
          /\ r.original_text = args.text
          /\ r.translated_text = result.translation
          /\ r.quality_score = result.quality_score

C7_EveryBackendResultStored ==
    (pc = "done" /\ result.source \in {"gpt", "google", "google_emergency"})
    => StoredFinal

(* C7 (amended): every request that returns through the normal flow, that
   is with a model or fast source tag, has stored the final (text,
   translation, quality_score) in the cache as its last step before
   returning, whatever the quality score; a request that ends on the
   emergency or the failed path returns without having stored its result. *)
C7_NormalResultStored ==
    /\ (pc = "done" /\ result.source \in {"gpt", "google"})
       => /\ StoredFinal
          /\ trace[Len(trace)] = "store_ok"
    /\ (pc = "done" /\ result.source \in {"google_emergency", "failed"})
       => Count(trace, {"store_ok"}) = 0

C7_Witness ==
    /\ pc = "done"
    /\ result.source = "gpt"
    /\ result.quality_score = 1
    /\ StoredFinal

(* C8 (as claimed): every result translate returns and every row of the
   cache carries a quality_score within [0.0, 1.0], for every minimum
   quality the configuration admits. *)
C8_QualityInRange ==
    validate_quality(MinQuality)
    => /\ pc = "done" => (0 <= result.quality_score /\ result.quality_score <= 10)
       /\ \A r \in table : 0 <= r.quality_score /\ r.quality_score <= 10

(* C9: with threshold 0.9, a translate of "I really need you right now"
   that misses the cache and meets no failure is routed to the model
   backend and returns quality 0.9 with source "gpt"; a second translate
   with identical arguments right after it returns the stored translation
   with source "cache" and invokes no backend. *)
C9_EndToEnd ==
    /\ (/\ pc = "done"
        /\ args.text = T_example
        /\ MinQuality = 9
        /\ trace[1] = "miss"
        /\ Count(trace, FailureEvents) = 0)
       => /\ PrimaryEvent = "gpt_ok"
          /\ result = [translation |-> GptOutput(T_example), source |-> "gpt",
                       quality_score |-> 9]
    /\ (/\ prev # << >>
        /\ pc \notin {"idle", "get_cached"}
        /\ args.text = T_example
        /\ MinQuality = 9
        /\ prev[1].args = args
        /\ Count(trace, FailureEvents) = 0)
       => /\ BackendTrace = << >>
          /\ pc \in {"cache_update", "done"}
          /\ pc = "done" =>
                result = [translation |-> prev[1].result.translation,
                          source |-> "cache", quality_score |-> 9]

C9_Witness ==
    /\ pc = "done"
    /\ prev # << >>
    /\ prev[1].args = args
    /\ args.text = T_example
    /\ MinQuality = 9
    /\ prev[1].result.source = "gpt"
    /\ result.source = "cache"
    /\ BackendTrace = << >>

(* C10 (as claimed): get_cached returns an entry only if its last_used lies
   within the configured retention window, TRANSLATION_CACHE_DAYS; a row
   whose last_used is older than that is reported as a miss although it is
   present. *)
C10_ConfiguredRetention ==
    /\ loc.cached # << >>
       => loc.cached[1].last_used > now - config.TRANSLATION_CACHE_DAYS
    /\ \A r \in table :
          (/\ pc = "cache_update"
           /\ r.text_hash = Key
           /\ r.last_used <= now - config.TRANSLATION_CACHE_DAYS)
          => loc.cached = << >>

----------------------------------------------------------------------------
(* Values of the variables of the process and of the single request while
   only pure functions are called or concurrent requests run *)

FreshProcess ==
    /\ now = 0
    /\ table = {}
    /\ connection = FALSE
    /\ config = DefaultConfig
    /\ total_tokens = 0
    /\ total_cost = 0

IdleSeq ==
    /\ pc = "idle"
    /\ args = NoArgs
    /\ loc = NoLoc
    /\ trace = << >>
    /\ live = {}
    /\ result = NoResult
    /\ prev = << >>

processVars == <<now, table, connection, config, total_tokens, total_cost>>

----------------------------------------------------------------------------
(* Calls of IntensityAnalyzer.analyze_intensity: a text is analysed, then
   extended word by word and analysed again. *)

ProbeWords == {"so", "hot", "you", W_xiangni_tone}
ProbeContexts == {"private", "group", "public", "other"}
ProbeStartTexts == {<< >>, T_example}

(* The matches of the patterns of both tables in one word *)
WordPatternMatches(w) ==
    Cardinality({p \in DOMAIN en_patterns : w \in en_patterns[p]})
    + SumOver(CnPatternTypes, [p \in CnPatternTypes |-> CnWordMatches(p, w)])

AnalyzerInit ==
    /\ FreshProcess
    /\ IdleSeq
    /\ IdleConc
    /\ keys = {}
    /\ IdleAux
    /\ \E t \in ProbeStartTexts, c \in ProbeContexts :
          probe = [NoProbe EXCEPT !.text = t, !.context_type = c]

(* analyze_intensity(text, context_type) *)
Analyze ==
    /\ probe.analysis = << >>
    /\ probe' = [probe EXCEPT
                   !.analysis = <<analyze_intensity(probe.text, probe.context_type)>>]
    /\ UNCHANGED <<processVars, seqVars, concVars, keys, auxVars>>

(* analyze_intensity of the text with one more word at its end *)
ExtendAndAnalyze(w) ==
    /\ probe.analysis # << >>
    /\ Len(probe.text) < MaxProbeLen
    /\ probe' = [probe EXCEPT
                   !.text = Append(probe.text, w),
                   !.before = probe.analysis,
                   !.added = WordPatternMatches(w),
                   !.analysis = <<analyze_intensity(Append(probe.text, w),
                                                    probe.context_type)>>]
    /\ UNCHANGED <<processVars, seqVars, concVars, keys, auxVars>>

AnalyzerNext ==
    \/ Analyze
    \/ \E w \in ProbeWords : ExtendAndAnalyze(w)

AnalyzerSpec == AnalyzerInit /\ [][AnalyzerNext]_vars

----------------------------------------------------------------------------
(* Calls of TranslationCache._get_text_hash *)

HashTexts == {<<"o">>, <<"oh">>}

(* Language codes of the fast backend: English, Chinese, Mongolian, Hmong *)
HashLangs == {"en", "zh", "mn", "hmn"}

HashInit ==
    /\ FreshProcess
    /\ IdleSeq
    /\ IdleConc
    /\ IdlePure
    /\ IdleAux

(* text_hash = self._get_text_hash(text, source_lang, target_lang) *)
HashCall(text, source_lang, target_lang) ==
    /\ Cardinality(keys) < MaxKeys
    /\ keys' = keys \cup {[text |-> text, source_lang |-> source_lang,
                           target_lang |-> target_lang,
                           key |-> _get_text_hash(text, source_lang, target_lang)]}
    /\ UNCHANGED <<processVars, seqVars, concVars, probe, auxVars>>

HashNext ==
    \E text \in HashTexts, s \in HashLangs, t \in HashLangs : HashCall(text, s, t)

HashSpec == HashInit /\ [][HashNext]_vars

----------------------------------------------------------------------------
(* Properties of the pure functions *)

(* C14 (as claimed): the cache key is a pure function of (text,
   source_lang, target_lang) and, md5 taken to be free of collisions, two
   triples that differ in at least one component get different keys. *)
C14_KeyInjective ==
    \A a \in keys, b \in keys :
       (a.key = b.key)
       <=> (/\ a.text = b.text
            /\ a.source_lang = b.source_lang
            /\ a.target_lang = b.target_lang)

(* The multiplier of a context type as the interface states it *)
StatedMultiplier(context_type) ==
    IF context_type = "private" THEN 12
    ELSE IF context_type = "group" THEN 8
    ELSE IF context_type = "public" THEN 6
    ELSE 10

(* C18: for every text and every context type (private 1.2, group 0.8,
   public 0.6, any other 1.0) analyze_intensity returns final_intensity =
   min(5, raw_intensity x multiplier), which lies in [0, 5]. *)
C18_Clamped ==
    probe.analysis # << >>
    => LET a == probe.analysis[1]
           m == StatedMultiplier(probe.context_type)
       IN /\ a.context_multiplier = m
          /\ a.raw_intensity >= 0
          /\ a.final_intensity = (IF a.raw_intensity * m > 500 THEN 500
                                  ELSE a.raw_intensity * m)
          /\ 0 <= a.final_intensity /\ a.final_intensity <= 500

C18_Witness ==
    /\ probe.analysis # << >>
    /\ probe.context_type = "other"
    /\ probe.analysis[1].raw_intensity * 10 > 500
    /\ probe.analysis[1].final_intensity = 500

(* C19 (as claimed): for a fixed context type, a text extended so that it
   contains more matches of weighted patterns never has a smaller
   final_intensity than the text it extends. *)
C19_Monotone ==
    (probe.before # << >> /\ probe.added > 0)
    => probe.analysis[1].final_intensity >= probe.before[1].final_intensity

(* C20 (as claimed): for "I really need you right now", which has one
   intensifier match and one emotion match, analyze_intensity produces an
   intensity greater than 3. *)
C20_ExampleAboveThree ==
    (probe.text = T_example /\ probe.analysis # << >>)
    => /\ probe.analysis[1].raw_intensity > 30
       /\ probe.analysis[1].final_intensity > 300

(* C20 (amended): for "I really need you right now", which has exactly one
   intensifier match ("really", 0.6) and one emotion match ("need", 0.7)
   and no other match, analyze_intensity produces raw_intensity 1.3 and
   final_intensity 1.3 x multiplier (1.56 private, 1.04 group, 0.78 public,
   1.3 otherwise), which is below 3; the text is routed to the model
   backend by its word count, 6 > 5. *)
C20_ExampleIntensity ==
    (probe.text = T_example /\ probe.analysis # << >>)
    => /\ PatternMatches(FALSE, "intensifiers", T_example) = 1
       /\ PatternMatches(FALSE, "emotions", T_example) = 1
       /\ probe.analysis[1].language = "en"
       /\ probe.analysis[1].raw_intensity = 13
       /\ probe.analysis[1].final_intensity
             = 13 * StatedMultiplier(probe.context_type)
       /\ probe.analysis[1].final_intensity < 300
       /\ WordCount(T_example) = 6
       /\ UseGpt(T_example, probe.context_type)

C20_Witness ==
    /\ probe.text = T_example
    /\ probe.context_type = "group"
    /\ probe.analysis # << >>
    /\ probe.analysis[1].final_intensity = 104

----------------------------------------------------------------------------
(* Concurrent requests: translate coroutines of one event loop, interleaved
   at their await points; the scheduler's cleanup; restarts of the process
   on the same database file. *)

(* Time advances in steps of ten days between requests. *)
ConcTimeSteps == {10}

(* The model's reply to request p: replies to the same text differ from
   call to call (temperature 0.7). *)
GptReply(text, p) == GptOutput(text) \o <<ToString(p)>>

CKey(p) == _get_text_hash(cargs[p].text, cargs[p].source_lang, cargs[p].target_lang)

(* The history once a call other than cleanup is made *)
Seen == [hist EXCEPT !.sweep = << >>]

AllIdle == \A p \in Procs : cpc[p] = "idle"

ConcInit ==
    /\ FreshProcess
    /\ IdleSeq
    /\ IdleConc
    /\ IdlePure
    /\ IdleAux

(* handle_message calls translate(text, source_lang, target_lang, 'group');
   the new coroutine is given the lowest free number. *)
CTranslate(p, text) ==
    /\ cpc[p] = "idle"
    /\ \A q \in 1..(p - 1) : cpc[q] # "idle"
    /\ hist.started < MaxRequests
    /\ cpc' = [cpc EXCEPT ![p] = "get_cached"]
    /\ cargs' = [cargs EXCEPT ![p] =
                    [text |-> text, source_lang |-> detect_language(text),
                     target_lang |-> TargetLang(detect_language(text)),
                     context_type |-> "group"]]
    /\ cloc' = [cloc EXCEPT ![p] = NoCLoc]
    /\ cresult' = [cresult EXCEPT ![p] = NoResult]
    /\ hist' = [Seen EXCEPT !.started = @ + 1]
    /\ UNCHANGED <<processVars, seqVars, pureVars, auxVars>>

(* Lines 61-72 of translate for request p *)
CRoute(p) ==
    LET g == UseGpt(cargs[p].text, cargs[p].context_type) IN
    [pc |-> IF g THEN "gpt_primary" ELSE "google_primary", use_gpt |-> g]

(* get_cached_translation of request p up to fetchone() *)
CCacheSelect(p) ==
    /\ cpc[p] = "get_cached"
    /\ \/ /\ connection' = TRUE
          /\ LET rows == SelectLive(table, CKey(p), now) IN
             IF rows # {}
             THEN /\ cloc' = [cloc EXCEPT ![p].cached = <<CHOOSE r \in rows : TRUE>>]
                  /\ cpc' = [cpc EXCEPT ![p] = "cache_update"]
             ELSE /\ cloc' = [cloc EXCEPT ![p].missed = TRUE,
                                          ![p].use_gpt = CRoute(p).use_gpt]
                  /\ cpc' = [cpc EXCEPT ![p] = CRoute(p).pc]
       \/ /\ cpc' = [cpc EXCEPT ![p] = OuterExcept]
          /\ UNCHANGED <<connection, cloc>>
    /\ hist' = Seen
    /\ UNCHANGED <<now, table, config, total_tokens, total_cost, cargs, cresult,
                   seqVars, pureVars, auxVars>>

(* get_cached_translation of request p after a hit: the UPDATE and commit,
   then the return of the values fetched before *)
CCacheUpdate(p) ==
    LET t == cargs[p].text
        present == \E r \in table : r.text_hash = CKey(p)
        racing == \E q \in Procs \ {p} :
                     cpc[q] = "cache_update" /\ cargs[q].text = t
    IN
    /\ cpc[p] = "cache_update"
    /\ \/ /\ table' = UpdateHit(table, CKey(p), now)
          /\ hist' = [Seen EXCEPT
                        !.hits[t] = IF present THEN @ + 1 ELSE @,
                        !.touched[t] = IF present THEN now ELSE @,
                        !.raced[t] = @ \/ (present /\ racing)]
          /\ LET cached == <<CachedDict(cloc[p].cached[1])>> IN
             IF CacheAccepted(cached, config.TRANSLATION_MIN_QUALITY)
             THEN /\ cresult' = [cresult EXCEPT ![p] = CacheResult(cached)]
                  /\ cpc' = [cpc EXCEPT ![p] = "done"]
                  /\ cloc' = [cloc EXCEPT ![p].gone = ~present]
             ELSE /\ cloc' = [cloc EXCEPT ![p].use_gpt = CRoute(p).use_gpt,
                                          ![p].gone = ~present]
                  /\ cpc' = [cpc EXCEPT ![p] = CRoute(p).pc]
                  /\ cresult' = cresult
       \/ /\ cpc' = [cpc EXCEPT ![p] = OuterExcept]
          /\ hist' = Seen
          /\ UNCHANGED <<table, cloc, cresult>>
    /\ UNCHANGED <<now, connection, config, total_tokens, total_cost, cargs,
                   seqVars, pureVars, auxVars>>

(* _gpt_translate of request p returned: lines 174-175 run without
   suspension, then translate assigns its locals. *)
CGptSuccess(p, next_pc) ==
    /\ \E u \in TokenUsages :
          /\ total_tokens' = AddUsage(total_tokens, u)
          /\ total_cost' = AddUsage(total_cost, u * CostRate)
          /\ hist' = [Seen EXCEPT
                        !.usage = @ + u,
                        !.calls = @ + 1,
                        !.overlap = @ \/ \E q \in Procs \ {p} :
                                            cpc[q] \in {"gpt_primary", "escalate"}]
    /\ cloc' = [cloc EXCEPT
                  ![p].translation = GptReply(cargs[p].text, p),
                  ![p].quality_score = GptQuality(config.TRANSLATION_MIN_QUALITY),
                  ![p].translation_source = "gpt"]
    /\ cpc' = [cpc EXCEPT ![p] = next_pc]

(* _google_translate of request p returned. *)
CGoogleSuccess(p) ==
    /\ cloc' = [cloc EXCEPT
                  ![p].translation = GoogleOutput(cargs[p].text),
                  ![p].quality_score = GoogleQuality(config.TRANSLATION_MIN_QUALITY),
                  ![p].translation_source = "google"]
    /\ cpc' = [cpc EXCEPT ![p] =
                  AfterPrimary(GoogleQuality(config.TRANSLATION_MIN_QUALITY),
                               config.TRANSLATION_MIN_QUALITY)]
    /\ hist' = Seen

(* A backend call of request p raised into the outer except handler. *)
CRaise(p) ==
    /\ cpc' = [cpc EXCEPT ![p] = OuterExcept]
    /\ hist' = Seen
    /\ UNCHANGED cloc

CGptPrimary(p) ==
    /\ cpc[p] = "gpt_primary"
    /\ \/ CGptSuccess(p, AfterPrimary(GptQuality(config.TRANSLATION_MIN_QUALITY),
                                       config.TRANSLATION_MIN_QUALITY))
       \/ /\ cpc' = [cpc EXCEPT ![p] = "google_fallback"]
          /\ hist' = Seen
          /\ UNCHANGED <<cloc, total_tokens, total_cost>>
    /\ UNCHANGED <<now, table, connection, config, cargs, cresult, seqVars,
                   pureVars, auxVars>>

CGoogleFallback(p) ==
    /\ cpc[p] = "google_fallback"
    /\ \/ CGoogleSuccess(p)
       \/ CRaise(p)
    /\ UNCHANGED <<processVars, cargs, cresult, seqVars, pureVars, auxVars>>

CGooglePrimary(p) ==
    /\ cpc[p] = "google_primary"
    /\ \/ CGoogleSuccess(p)
       \/ CRaise(p)
    /\ UNCHANGED <<processVars, cargs, cresult, seqVars, pureVars, auxVars>>

CEscalate(p) ==
    /\ cpc[p] = "escalate"
    /\ \/ CGptSuccess(p, "store")
       \/ /\ CRaise(p)
          /\ UNCHANGED <<total_tokens, total_cost>>
    /\ UNCHANGED <<now, table, connection, config, cargs, cresult, seqVars,
                   pureVars, auxVars>>

(* store_translation of request p, then the return of the result *)
CStore(p) ==
    LET t == cargs[p].text IN
    /\ cpc[p] = "store"
    /\ \/ /\ connection' = TRUE
          /\ table' = InsertOrReplace(table,
                         NewRow(t, cloc[p].translation, cargs[p].source_lang,
                                cargs[p].target_lang, cloc[p].quality_score, now))
          /\ cresult' = [cresult EXCEPT ![p] = NormalResult(cloc[p])]
          /\ cpc' = [cpc EXCEPT ![p] = "done"]
          /\ cloc' = [cloc EXCEPT ![p].stored = TRUE]
          /\ hist' = [Seen EXCEPT
                        !.hits[t] = 0,
                        !.touched[t] = now,
                        !.raced[t] = FALSE,
                        !.last_store[t] =
                            <<[translation |-> cloc[p].translation,
                               quality_score |-> cloc[p].quality_score,
                               by |-> p]>>]
       \/ /\ CRaise(p)
          /\ UNCHANGED <<connection, table, cresult>>
    /\ UNCHANGED <<now, config, total_tokens, total_cost, cargs, seqVars, pureVars, auxVars>>

(* The outer except handler of request p *)
CEmergency(p) ==
    /\ cpc[p] = "emergency"
    /\ \E ok \in BOOLEAN :
          LET out == EmergencyOutcome(ok, cargs[p].text,
                                      config.TRANSLATION_MIN_QUALITY) IN
          /\ cpc' = [cpc EXCEPT ![p] = out.pc]
          /\ cresult' = [cresult EXCEPT ![p] = out.result]
    /\ hist' = Seen
    /\ UNCHANGED <<processVars, cargs, cloc, seqVars, pureVars, auxVars>>

(* The caller of request p has taken the result. *)
CFinish(p) ==
    /\ cpc[p] = "done"
    /\ cpc' = [cpc EXCEPT ![p] = "idle"]
    /\ cargs' = [cargs EXCEPT ![p] = NoArgs]
    /\ cloc' = [cloc EXCEPT ![p] = NoCLoc]
    /\ cresult' = [cresult EXCEPT ![p] = NoResult]
    /\ hist' = Seen
    /\ UNCHANGED <<processVars, seqVars, pureVars, auxVars>>

(* TranslationCache.cleanup(max_days): one DELETE statement and a commit;
   nothing happens while the connection is not open. *)
CCleanup(max_days) ==
    /\ table' = cleanup(table, connection, now, max_days)
    /\ hist' = [hist EXCEPT !.sweep =
                   <<[before |-> table, after |-> table', at |-> now,
                      max_days |-> max_days, open |-> connection]>>]
    /\ UNCHANGED <<now, connection, config, total_tokens, total_cost, cpc, cargs,
                   cloc, cresult, seqVars, pureVars, auxVars>>

(* Time passes between requests; days are counted from the first store,
   as nothing depends on the time that passes over an empty table. *)
CTick ==
    /\ AllIdle
    /\ table # {}
    /\ \E d \in ConcTimeSteps :
          /\ now + d <= MaxConcNow
          /\ now' = now + d
    /\ hist' = Seen
    /\ UNCHANGED <<table, connection, config, total_tokens, total_cost, cpc,
                   cargs, cloc, cresult, seqVars, pureVars, auxVars>>

(* The process is restarted: a new manager with a new cache object and
   counters at 0 (main.py:75-79); the database file stays. *)
CRestart ==
    /\ AllIdle
    /\ connection
    /\ connection' = FALSE
    /\ total_tokens' = 0
    /\ total_cost' = 0
    /\ hist' = [Seen EXCEPT !.usage = 0, !.calls = 0, !.overlap = FALSE]
    /\ UNCHANGED <<now, table, config, cpc, cargs, cloc, cresult, seqVars,
                   pureVars, auxVars>>

ConcNext ==
    \/ \E p \in Procs, text \in ConcTexts : CTranslate(p, text)
    \/ \E p \in Procs : CCacheSelect(p)
    \/ \E p \in Procs : CCacheUpdate(p)
    \/ \E p \in Procs : CGptPrimary(p)
    \/ \E p \in Procs : CGoogleFallback(p)
    \/ \E p \in Procs : CGooglePrimary(p)
    \/ \E p \in Procs : CEscalate(p)
    \/ \E p \in Procs : CStore(p)
    \/ \E p \in Procs : CEmergency(p)
    \/ \E p \in Procs : CFinish(p)
    \/ CCleanup(DefaultMaxDays)
    \/ CTick
    \/ CRestart

ConcSpec == ConcInit /\ [][ConcNext]_vars

ConcTypeOK ==
    /\ now \in 0..MaxConcNow
    /\ connection \in BOOLEAN
    /\ hist.started \in 0..MaxRequests
    /\ \A p \in Procs :
          cpc[p] \in {"idle", "get_cached", "cache_update", "gpt_primary",
                      "google_fallback", "google_primary", "escalate", "store",
                      "emergency", "done"}

----------------------------------------------------------------------------
(* Properties of the concurrent requests *)

(* C11: every get_cached hit increments the entry's use_count by exactly 1
   and refreshes last_used before it returns, and no increment is lost
   when hits on one key interleave between their SELECT and their UPDATE:
   the use_count of an entry is the stored default plus the number of hits
   made on it since it was stored, and last_used is the day of the last
   store or hit. *)
C11_HitAccounting ==
    \A r \in table :
       /\ r.use_count = DefaultUseCount + hist.hits[r.original_text]
       /\ r.last_used = hist.touched[r.original_text]

C11_Witness ==
    \E r \in table :
       /\ hist.raced[r.original_text]
       /\ r.use_count = DefaultUseCount + 2
       /\ \A p \in Procs :
             /\ cpc[p] = "done"
             /\ cargs[p].text = r.original_text
             /\ cresult[p].source = "cache"

(* C12: the store holds at most one entry per cache key in every state; a
   store leaves exactly one row for its key, carrying the translation and
   quality it was given and last_used = now, whether the key was absent or
   present, leaves the rows of other keys alone, and does not raise the
   use_count of the entry it overwrites. *)
C12_Unique ==
    \A a \in table, b \in table : a.text_hash = b.text_hash => a = b

C12_StoreStep(p) ==
    (cloc'[p].stored /\ ~cloc[p].stored)
    => LET k == CKey(p)
           old == {r \in table : r.text_hash = k}
           new == {r \in table' : r.text_hash = k}
       IN /\ Cardinality(new) = 1
          /\ \A r \in new :
                /\ r.original_text = cargs[p].text
                /\ r.translated_text = cloc[p].translation
                /\ r.quality_score = cloc[p].quality_score
                /\ r.last_used = now
                /\ \A o \in old : r.use_count <= o.use_count
          /\ {r \in table' : r.text_hash # k} = {r \in table : r.text_hash # k}

C12_StoreIsUpsert ==
    /\ [](C12_Unique)
    /\ [][\A p \in Procs : C12_StoreStep(p)]_vars

C12_Witness ==
    /\ \A p \in Procs : cpc[p] = "done" /\ cloc[p].stored
    /\ cargs[1].text = cargs[2].text
    /\ hist.last_store[cargs[1].text] # << >>
    /\ hist.last_store[cargs[1].text][1].by = 2
    /\ \E r \in table :
          /\ r.text_hash = CKey(2)
          /\ r.translated_text = cloc[2].translation
          /\ r.use_count = 1

(* An entry that the eviction policy names: last used more than max_days
   ago, or used once and created more than 7 days ago *)
Evictable(r, at, max_days) ==
    \/ at - r.last_used > max_days
    \/ (r.use_count = 1 /\ at - r.created_at > 7)

(* C13: cleanup(max_days) removes exactly the entries whose
   last_used is older than max_days or that have use_count = 1 and were
   created more than 7 days ago, and keeps every other entry. *)
C13_CleanupRemovesExactly ==
    hist.sweep # << >>
    => LET c == hist.sweep[1] IN
       c.after = {r \in c.before : ~Evictable(r, c.at, c.max_days)}

(* What cleanup does in each of its two branches: with the connection
   open it removes exactly the evictable entries (an entry with use_count =
   1 created 10 days ago goes, an entry with use_count >= 2 and last_used
   inside the window stays); with self._connection still None it executes
   no statement and the table stays as it was. *)
CleanupBranches ==
    hist.sweep # << >>
    => LET c == hist.sweep[1] IN
       /\ c.open =>
             /\ c.after = {r \in c.before : ~Evictable(r, c.at, c.max_days)}
             /\ \A r \in c.before :
                   /\ (r.use_count = 1 /\ c.at - r.created_at = 10) => r \notin c.after
                   /\ (r.use_count >= 2 /\ c.at - r.last_used <= c.max_days)
                      => r \in c.after
       /\ ~c.open => c.after = c.before
       /\ table = c.after

CleanupOpenEvicts ==
    /\ hist.sweep # << >>
    /\ hist.sweep[1].open
    /\ hist.sweep[1].max_days = 30
    /\ \E r \in hist.sweep[1].before :
          /\ r.use_count = 1
          /\ hist.sweep[1].at - r.created_at = 10
          /\ hist.sweep[1].at - r.last_used <= 30
          /\ r \notin table

(* C15: when two translate requests for the same (text, source_lang,
   target_lang) are in flight together, both miss the cache and both store,
   then once both have returned the cache holds exactly one entry for the
   key, and its translation and quality_score are those of the store that
   was executed last. *)
C15_LastWriteWins ==
    \A p \in Procs, q \in Procs :
       (/\ p # q
        /\ cpc[p] = "done" /\ cpc[q] = "done"
        /\ cargs[p] = cargs[q]
        /\ cloc[p].missed /\ cloc[q].missed
        /\ cloc[p].stored /\ cloc[q].stored)
       => LET rows == {r \in table : r.text_hash = CKey(p)}
              last == hist.last_store[cargs[p].text][1]
          IN /\ Cardinality(rows) = 1
             /\ \A r \in rows :
                   /\ r.translated_text = last.translation
                   /\ r.quality_score = last.quality_score
                   /\ last.by \in {p, q}
                      => /\ r.translated_text = cloc[last.by].translation
                         /\ r.quality_score = cloc[last.by].quality_score

C15_Witness ==
    /\ cpc[1] = "done" /\ cpc[2] = "done"
    /\ cargs[1] = cargs[2]
    /\ cloc[1].missed /\ cloc[2].missed
    /\ cloc[1].stored /\ cloc[2].stored
    /\ cloc[1].translation # cloc[2].translation
    /\ hist.last_store[cargs[1].text][1].by = 1
    /\ \E r \in table : r.translated_text = cloc[1].translation

(* C16: every entry present in the cache has use_count >= 1, in every
   state reached by stores, lookups and cleanups. *)
C16_UseCountPositive ==
    \A r \in table : r.use_count >= 1

C16_Witness ==
    /\ hist.sweep # << >>
    /\ hist.sweep[1].open
    /\ \E r \in table : r.use_count = 1
    /\ \E r \in table : r.use_count = 2

(* C17: every model call that returns adds its reported usage to the token
   counter and usage/1000 x 0.01 to the cost counter; the counters of a
   manager never decrease; and after any interleaving of concurrent
   requests the token counter is the sum of the usages of all model calls
   that returned. *)
C17_Counted ==
    /\ total_tokens = hist.usage
    /\ total_cost = hist.usage * CostRate
    /\ hist.usage >= hist.calls

C17_Step ==
    \/ (connection /\ ~connection')
    \/ (total_tokens' >= total_tokens /\ total_cost' >= total_cost)

C17_TokenAccounting ==
    /\ [](C17_Counted)
    /\ [][C17_Step]_vars

C17_Witness ==
    /\ hist.overlap
    /\ hist.calls = 2
    /\ total_tokens = 2
    /\ \A p \in Procs : cpc[p] = "done" /\ cresult[p].source = "gpt"

----------------------------------------------------------------------------
(* Calls of SubcultureSlangHandler.analyze_text: a text is put together word
   by word and analysed. *)

RegWords == {W_xiangni, W_yiqi, W_yuecha, W_anmo, W_bendi, "hello"}

exceptReg == <<processVars, seqVars, concVars, pureVars, stat, lazy, limiter,
               pool, names>>

RegisterInit ==
    /\ FreshProcess
    /\ IdleSeq
    /\ IdleConc
    /\ IdlePure
    /\ IdleAux

(* The caller has a text one word longer. *)
RegExtend(w) ==
    /\ Len(reg.text) < MaxRegLen
    /\ reg' = [text |-> Append(reg.text, w), analysis |-> << >>]
    /\ UNCHANGED exceptReg

(* subculture_analysis = await self.slang_handler.analyze_text(text) *)
RegAnalyze ==
    /\ reg.analysis = << >>
    /\ reg' = [reg EXCEPT !.analysis = <<analyze_text(reg.text)>>]
    /\ UNCHANGED exceptReg

RegisterNext ==
    \/ \E w \in RegWords : RegExtend(w)
    \/ RegAnalyze

RegisterSpec == RegisterInit /\ [][RegisterNext]_vars

(* The number of matches of all sub-patterns of a category in a text *)
CategoryMatchCount(category, text) ==
    SumOver(SubPatternNames[category],
            [n \in SubPatternNames[category] |-> SubMatches(category, n, text)])

(* C21: analyze_text returns intensity = sum over the matched categories of
   (category match count x category intensity weight) / total match count,
   the match-count-weighted average of the matched categories' weights, so
   it lies between the smallest and the largest weight of the matched
   categories, and it returns 0 when nothing matched.  The intensity is the
   fraction num / (10 x total_matches). *)
C21_WeightedAverage ==
    reg.analysis # << >>
    => LET a == reg.analysis[1]
           cats == DOMAIN SubPatternNames
           count == [c \in cats |-> CategoryMatchCount(c, reg.text)]
           total == SumOver(cats, count)
           matched == {c \in cats : count[c] > 0}
       IN /\ a.total_matches = total
          /\ total = 0 => a.num = 0
          /\ total > 0 =>
                /\ a.num = SumOver(matched,
                              [c \in matched |-> count[c] * context_intensity[c]])
                /\ \E lo \in matched : context_intensity[lo] * total <= a.num
                /\ \E hi \in matched : a.num <= context_intensity[hi] * total

----------------------------------------------------------------------------
(* Cache operations, each run to its end, and statistics calls
   (/translation_stats and /translation_cache of handlers.py) *)

StatTexts == {T_example, T_five}
StatTimeSteps == {10}

(* clear is cleanup(0); the scheduled cleanup has the default *)
StatMaxDays == {0, DefaultMaxDays}

StatKey(text) == _get_text_hash(text, detect_language(text),
                                TargetLang(detect_language(text)))

exceptStat == <<config, total_tokens, total_cost, seqVars, concVars, pureVars,
                reg, lazy, limiter, pool, names>>

StatsInit ==
    /\ FreshProcess
    /\ IdleSeq
    /\ IdleConc
    /\ IdlePure
    /\ IdleAux

(* store_translation of a model translation *)
SStore(text) ==
    /\ connection' = TRUE
    /\ table' = InsertOrReplace(table,
                   NewRow(text, GptOutput(text), detect_language(text),
                          TargetLang(detect_language(text)),
                          GptQuality(config.TRANSLATION_MIN_QUALITY), now))
    /\ stat' = NoStat
    /\ UNCHANGED <<now, exceptStat>>

(* get_cached_translation *)
SGetCached(text) ==
    /\ connection' = TRUE
    /\ table' = IF SelectLive(table, StatKey(text), now) # {}
                THEN UpdateHit(table, StatKey(text), now)
                ELSE table
    /\ \A r \in table' : r.use_count <= MaxUseCount + 1
    /\ stat' = NoStat
    /\ UNCHANGED <<now, exceptStat>>

SCleanup(max_days) ==
    /\ table' = cleanup(table, connection, now, max_days)
    /\ stat' = NoStat
    /\ UNCHANGED <<now, connection, exceptStat>>

(* get_usage_statistics / _get_cache_stats *)
SStats ==
    /\ connection' = TRUE
    /\ stat' = <<_get_cache_stats(table, now)>>
    /\ UNCHANGED <<now, table, exceptStat>>

STick ==
    /\ \E d \in StatTimeSteps :
          /\ now + d <= MaxStatNow
          /\ now' = now + d
    /\ stat' = NoStat
    /\ UNCHANGED <<table, connection, exceptStat>>

SRestart ==
    /\ connection
    /\ connection' = FALSE
    /\ stat' = NoStat
    /\ UNCHANGED <<now, table, exceptStat>>

StatsNext ==
    \/ \E text \in StatTexts : SStore(text) \/ SGetCached(text)
    \/ \E max_days \in StatMaxDays : SCleanup(max_days)
    \/ SStats
    \/ STick
    \/ SRestart

StatsSpec == StatsInit /\ [][StatsNext]_vars

(* C22: the statistics are available in every cache state: the call returns
   hit_rate = total uses / total entries when the cache holds entries, and
   on an empty cache it returns a result with the divisor taken as 1
   instead of failing. *)
C22_StatsAlways ==
    stat # << >>
    => /\ stat[1].raised = ""
       /\ stat[1].hit_rate =
             [num |-> SumOver(table, [r \in table |-> r.use_count]),
              den |-> IF table = {} THEN 1 ELSE Cardinality(table)]

----------------------------------------------------------------------------
(* The single request under a fair event loop: a coroutine that can be
   resumed is resumed, and every awaited cache or backend call comes back
   with a value or an exception. *)

RequestStep ==
    \/ CacheSelect
    \/ CacheUpdate
    \/ GptPrimary
    \/ GoogleFallback
    \/ GooglePrimary
    \/ Escalate
    \/ Store
    \/ Emergency

(* The positions at which RequestStep is enabled: at each of them the
   awaited call can at least raise, which extends the trace. *)
InFlight ==
    pc \in {"get_cached", "cache_update", "gpt_primary", "google_fallback",
            "google_primary", "escalate", "store", "emergency"}

(* Weak fairness of RequestStep, WF_vars(RequestStep), written out with
   InFlight as its enabling condition *)
RequestFairness == []<>(~InFlight) \/ []<><<RequestStep>>_vars

LiveSpec == Spec /\ RequestFairness

(* C23: whenever translate reaches its cache-store step, the result being
   stored is a model translation whose quality_score is the configured
   minimum; a fast translation is never written to the cache and never
   returned with the plain fast source tag: every returned result is tagged
   cache, gpt, google_emergency or failed. *)
C23_OnlyModelStored ==
    /\ pc = "store" =>
          /\ loc.translation_source = "gpt"
          /\ loc.translation = GptOutput(args.text)
          /\ loc.quality_score = MinQuality
    /\ \A r \in table :
          /\ r.translated_text = GptOutput(r.original_text)
          /\ r.quality_score \in {c.TRANSLATION_MIN_QUALITY : c \in Configs}
    /\ pc = "done" =>
          /\ result.source \in {"cache", "gpt", "google_emergency", "failed"}
          /\ result.source = "gpt" => result.translation = GptOutput(args.text)

C23_Witness ==
    /\ pc = "done"
    /\ BackendTrace = <<"google_ok", "gpt_ok">>
    /\ result.source = "gpt"
    /\ \E r \in table : r.text_hash = Key /\ r.translated_text = result.translation

(* C24: for every pattern of cache and backend successes and failures one
   translate request calls the model backend at most twice and the fast
   backend at most twice, makes at most two cache reads and one cache
   write, and then ends with a returned result. *)
C24_CallsBounded ==
    /\ GptCalls <= 2
    /\ GoogleCalls <= 2
    /\ Count(trace, {"hit", "miss", "select_fail"}) <= 1
    /\ Count(trace, {"update_ok", "update_fail"}) <= 1
    /\ Count(trace, {"store_ok", "store_fail"}) <= 1

C24_BoundedWork ==
    /\ [](C24_CallsBounded)
    /\ (pc = "get_cached") ~> (pc = "done")

C24_Witness ==
    /\ pc = "done"
    /\ GptCalls = 2
    /\ GoogleCalls = 2
    /\ result.source = "google_emergency"

----------------------------------------------------------------------------
(* Properties of cleanup among the concurrent requests *)

(* C25: cleanup on a TranslationCache whose connection has not been opened
   since construction deletes nothing, even when the persisted table holds
   entries the eviction policy names, and it does not open the connection
   itself. *)
C25_UnopenedCleanupIsNoOp ==
    (hist.sweep # << >> /\ ~hist.sweep[1].open)
    => /\ hist.sweep[1].after = hist.sweep[1].before
       /\ table = hist.sweep[1].before
       /\ ~connection

C25_Witness ==
    /\ hist.sweep # << >>
    /\ ~hist.sweep[1].open
    /\ ~connection
    /\ \E r \in table :
          /\ r \in hist.sweep[1].before
          /\ Evictable(r, hist.sweep[1].at, hist.sweep[1].max_days)

TableKeys(tbl) == {r.text_hash : r \in tbl}

(* A step in which request p executes its store / the UPDATE of its hit *)
StoreStepOf(p) == cloc'[p].stored /\ ~cloc[p].stored
UpdateStepOf(p) ==
    /\ cpc[p] = "cache_update"
    /\ cpc'[p] \notin {"cache_update", OuterExcept}

(* C26: get_cached never creates or resurrects a row: when cleanup removed
   the entry between the lookup of a get_cached and its use_count update,
   the update leaves the table as it is, get_cached returns the hit it
   read, and the entry stays deleted; a key enters the table only by a
   store. *)
C26_UpdateStep ==
    \A p \in Procs :
       UpdateStepOf(p)
       => /\ TableKeys(table') = TableKeys(table)
          /\ (CKey(p) \notin TableKeys(table))
             => /\ table' = table
                /\ cloc'[p].gone
                /\ cresult'[p] = [translation |-> cloc[p].cached[1].translated_text,
                                  source |-> "cache",
                                  quality_score |-> cloc[p].cached[1].quality_score]

C26_KeysOnlyByStore ==
    \A k \in TableKeys(table') \ TableKeys(table) :
       \E p \in Procs : StoreStepOf(p) /\ CKey(p) = k

C26_NoResurrection ==
    [][C26_UpdateStep /\ C26_KeysOnlyByStore]_vars

C26_Witness ==
    \E p \in Procs :
       /\ cpc[p] = "done"
       /\ cloc[p].gone
       /\ cresult[p].source = "cache"
       /\ CKey(p) \notin TableKeys(table)

----------------------------------------------------------------------------
(* Cache operations that start on a TranslationCache whose connection does
   not exist yet: each calls _get_connection and then issues its query. *)

exceptLazy == <<processVars, seqVars, concVars, pureVars, reg, stat, limiter,
                pool, names>>

(* A new database file has no translations table; the file of an earlier
   process has it. *)
LazyInit ==
    /\ FreshProcess
    /\ IdleSeq
    /\ IdleConc
    /\ IdlePure
    /\ reg = NoReg
    /\ stat = NoStat
    /\ limiter = NoLimiter
    /\ pool = NoPool
    /\ names = NoNames
    /\ \E t \in BOOLEAN : lazy = [NoLazy EXCEPT !.tables = t]

(* if self._connection is None: ... aiosqlite.connect is awaited;
   otherwise return self._connection *)
LGetConnection(p) ==
    /\ lazy.pc[p] = "idle"
    /\ lazy' = IF lazy.connection = 0
               THEN [lazy EXCEPT !.pc[p] = "connecting"]
               ELSE [lazy EXCEPT !.pc[p] = "query",
                                 !.returned[p] = lazy.connection]
    /\ UNCHANGED exceptLazy

(* connect returned: self._connection = <the new connection>, then
   _ensure_tables is awaited *)
LConnected(p) ==
    /\ lazy.pc[p] = "connecting"
    /\ lazy' = [lazy EXCEPT !.pc[p] = "ensuring",
                            !.opened = @ + 1,
                            !.connection = lazy.opened + 1]
    /\ UNCHANGED exceptLazy

(* _ensure_tables finished: CREATE TABLE IF NOT EXISTS on
   self._connection; return self._connection *)
LEnsured(p) ==
    /\ lazy.pc[p] = "ensuring"
    /\ lazy' = [lazy EXCEPT !.pc[p] = "query",
                            !.tables = TRUE,
                            !.returned[p] = lazy.connection]
    /\ UNCHANGED exceptLazy

(* The operation executes its statement on the connection it was given. *)
LQuery(p) ==
    /\ lazy.pc[p] = "query"
    /\ lazy' = [lazy EXCEPT !.pc[p] = "done",
                            !.early = @ \/ ~lazy.tables]
    /\ UNCHANGED exceptLazy

LazyNext ==
    \E p \in LazyProcs :
       \/ LGetConnection(p)
       \/ LConnected(p)
       \/ LEnsured(p)
       \/ LQuery(p)

LazySpec == LazyInit /\ [][LazyNext]_vars

(* C27: when several cache operations start before the connection exists,
   exactly one database connection is created for the instance (none is
   opened and then dropped), and no query is issued on the connection
   before the table-creation step has finished. *)
C27_LazyInitSafe ==
    /\ lazy.opened <= 1
    /\ lazy.opened > 0 => lazy.connection = 1
    /\ ~lazy.early

----------------------------------------------------------------------------
(* RateLimiter (rate_limiter.py) *)

(* A limiter that tests len(...) > limit *)
check_rate_limit_off_by_one(times, current_time, limit, window) ==
    LET kept == SelectSeq(times, LAMBDA time : time > current_time - window)
    IN IF Len(kept) > limit
       THEN [exceeded |-> TRUE, times |-> kept]
       ELSE [exceeded |-> FALSE, times |-> Append(kept, current_time)]

(* check_rate_limit on the list of one pair: drop the timestamps that are
   not after window_start, answer True when limit of them are left,
   otherwise append the current time and answer False. *)
check_rate_limit(times, current_time, limit, window) ==
    LET kept == SelectSeq(times, LAMBDA time : time > current_time - window)
    IN IF Len(kept) >= limit
       THEN [exceeded |-> TRUE, times |-> kept]
       ELSE [exceeded |-> FALSE, times |-> Append(kept, current_time)]

exceptLimiter == <<processVars, seqVars, concVars, pureVars, reg, stat, lazy,
                   pool, names>>

LimiterInit ==
    /\ FreshProcess
    /\ IdleSeq
    /\ IdleConc
    /\ IdlePure
    /\ IdleAux

(* rate_limiter.check_rate_limit(chat_id, user_id, limit, window) *)
LimCheck(k) ==
    /\ limiter.calls < MaxLimCalls
    /\ LET r == check_rate_limit(limiter.rate_limits[k], limiter.now,
                                 RateLimit, RateWindow)
       IN limiter' = [limiter EXCEPT
                        !.rate_limits[k] = r.times,
                        !.admitted[k] = IF r.exceeded THEN @
                                        ELSE Append(@, limiter.now),
                        !.rejected[k] = @ \/ r.exceeded,
                        !.last = <<[pair |-> k, at |-> limiter.now,
                                    exceeded |-> r.exceeded,
                                    prior |-> limiter.admitted[k]]>>,
                        !.calls = @ + 1]
    /\ UNCHANGED exceptLimiter

(* datetime.now() moves on. *)
LimTick ==
    /\ limiter.now < MaxLimNow
    /\ limiter' = [limiter EXCEPT !.now = @ + 1, !.last = << >>]
    /\ UNCHANGED exceptLimiter

LimiterNext ==
    \/ \E k \in Pairs : LimCheck(k)
    \/ LimTick

LimiterSpec == LimiterInit /\ [][LimiterNext]_vars

(* The admitted actions of a history that lie in the window ending at t *)
InWindow(times, t) == Count(times, {u \in 0..MaxLimNow : u > t - RateWindow /\ u <= t})

(* C28: with a fixed limit and window, check_rate_limit returns False and
   records the action iff fewer than limit admitted actions of the pair lie
   within the last window seconds, and returns True without recording
   otherwise; so at most limit actions are admitted per pair in any window,
   and a call for one pair leaves the lists of the other pairs as they
   were. *)
C28_LastCall ==
    limiter.last # << >>
    => LET c == limiter.last[1] IN
       /\ c.exceeded <=> ~(InWindow(c.prior, c.at) < RateLimit)
       /\ limiter.admitted[c.pair] =
             IF c.exceeded THEN c.prior ELSE Append(c.prior, c.at)

C28_WindowBound ==
    \A k \in Pairs, t \in 0..MaxLimNow :
       InWindow(limiter.admitted[k], t) <= RateLimit

C28_OtherPairs ==
    \A k \in Pairs :
       (limiter'.last # << >> /\ limiter'.last[1].pair # k)
       => limiter'.rate_limits[k] = limiter.rate_limits[k]

C28_RateLimit ==
    /\ [](C28_LastCall /\ C28_WindowBound)
    /\ [][C28_OtherPairs]_vars

C28_Witness ==
    \E k \in Pairs :
       /\ limiter.last # << >>
       /\ limiter.last[1].pair = k
       /\ ~limiter.last[1].exceeded
       /\ limiter.rejected[k]
       /\ Len(limiter.admitted[k]) = RateLimit + 1
       /\ \E j \in Pairs \ {k} : limiter.admitted[j] # << >>

----------------------------------------------------------------------------
(* DatabaseManager.get_connection (database.py), used by several coroutines
   of one event loop *)

(* A pool that hands out the first connection, free or not *)
FreeConnections_any(in_use) == 1..Len(in_use)

(* The connections of the pool whose in_use flag is False *)
FreeConnections(in_use) == {i \in 1..Len(in_use) : ~in_use[i]}

exceptPool == <<processVars, seqVars, concVars, pureVars, reg, stat, lazy,
                limiter, names>>

PoolInit ==
    /\ FreshProcess
    /\ IdleSeq
    /\ IdleConc
    /\ IdlePure
    /\ IdleAux

(* "async with self.get_connection() as conn": _get_connection takes the
   lock and, in dict order, the first free connection; with none free and
   fewer than 5 in the pool it awaits aiosqlite.connect inside the lock;
   otherwise it raises RuntimeError("Connection pool exhausted").  The
   coroutines are alike: the one that starts is given the lowest number not
   in use. *)
PGetConnection(u) ==
    /\ pool.pc[u] = "idle"
    /\ \A v \in 1..(u - 1) : pool.pc[v] # "idle"
    /\ pool.lock = 0
    /\ LET free == FreeConnections(pool.in_use) IN
       IF free # {}
       THEN LET i == CHOOSE i \in free : \A j \in free : i <= j IN
            pool' = [pool EXCEPT !.in_use[i] = TRUE,
                                 !.conn[u] = i,
                                 !.pc[u] = "body"]
       ELSE IF Len(pool.in_use) < max_connections
       THEN pool' = [pool EXCEPT !.lock = u, !.pc[u] = "connecting"]
       ELSE pool' = [pool EXCEPT !.pc[u] = "exhausted",
                                 !.refused = <<pool.in_use>>]
    /\ UNCHANGED exceptPool

(* connect returned: the new connection enters the pool as in use and the
   lock is released. *)
PConnected(u) ==
    /\ pool.pc[u] = "connecting"
    /\ pool' = [pool EXCEPT !.in_use = Append(@, TRUE),
                            !.conn[u] = Len(pool.in_use) + 1,
                            !.lock = 0,
                            !.pc[u] = "body"]
    /\ UNCHANGED exceptPool

(* The body of the with statement ends, normally or with an exception; the
   finally clause is entered. *)
PBodyEnds(u, exception) ==
    /\ pool.pc[u] = "body"
    /\ pool' = [pool EXCEPT !.pc[u] = "finally", !.exc[u] = exception]
    /\ UNCHANGED exceptPool

(* _release_connection: under the lock, the flag of the connection is set
   to False; the exception, if any, goes on to the caller. *)
PRelease(u) ==
    /\ pool.pc[u] = "finally"
    /\ pool.lock = 0
    /\ pool' = [pool EXCEPT !.in_use[pool.conn[u]] = FALSE,
                            !.conn[u] = 0,
                            !.exc[u] = FALSE,
                            !.pc[u] = "idle"]
    /\ UNCHANGED exceptPool

(* The caller of a refused request handles the RuntimeError. *)
PRefused(u) ==
    /\ pool.pc[u] = "exhausted"
    /\ pool' = [pool EXCEPT !.pc[u] = "idle", !.refused = << >>]
    /\ UNCHANGED exceptPool

PoolNext ==
    \E u \in PoolUsers :
       \/ PGetConnection(u)
       \/ PConnected(u)
       \/ \E exception \in BOOLEAN : PBodyEnds(u, exception)
       \/ PRelease(u)
       \/ PRefused(u)

PoolSpec == PoolInit /\ [][PoolNext]_vars

(* The coroutines that have been given a connection and have not released
   it yet *)
Holders(i) == {u \in PoolUsers : pool.conn[u] = i}

(* C29: a pooled connection is never held by two get_connection users at
   the same time, the pool never holds more than 5 connections, a request
   is refused with "Connection pool exhausted" only when, and whenever, all
   5 are in use, and a connection is marked free again when its holder has
   left the context, by the end of the body or by an exception. *)
C29_PoolState ==
    /\ Len(pool.in_use) <= 5
    /\ \A i \in 1..Len(pool.in_use) :
          /\ Cardinality(Holders(i)) <= 1
          /\ pool.in_use[i] <=> Holders(i) # {}
    /\ \A u \in PoolUsers :
          /\ pool.conn[u] # 0 <=> pool.pc[u] \in {"body", "finally"}
          /\ pool.conn[u] \in 0..Len(pool.in_use)
    /\ pool.refused # << >> =>
          /\ Len(pool.refused[1]) = 5
          /\ \A i \in 1..5 : pool.refused[1][i]

C29_RequestStep ==
    \A u \in PoolUsers :
       (pool.pc[u] = "idle" /\ pool'.pc[u] # "idle")
       => IF Len(pool.in_use) = 5 /\ \A i \in 1..5 : pool.in_use[i]
          THEN pool'.pc[u] = "exhausted" /\ pool'.in_use = pool.in_use
          ELSE pool'.pc[u] \in {"body", "connecting"}

C29_ReleaseStep ==
    \A u \in PoolUsers :
       (pool.pc[u] = "finally" /\ pool'.pc[u] # "finally")
       => /\ ~pool'.in_use[pool.conn[u]]
          /\ pool'.conn[u] = 0

C29_Pool ==
    /\ [](C29_PoolState)
    /\ [][C29_RequestStep /\ C29_ReleaseStep]_vars

C29_Witness ==
    /\ Len(pool.in_use) = 5
    /\ \E u \in PoolUsers : pool.pc[u] = "exhausted"
    /\ \E u \in PoolUsers : pool.pc[u] = "body" /\ pool.conn[u] = 1
    /\ \E u \in PoolUsers : pool.pc[u] = "finally" /\ pool.exc[u]

----------------------------------------------------------------------------
(* Chat tables of DatabaseManager (database.py): a table name is the
   sequence of its characters. *)

DigitChars == <<"0", "1", "2", "3", "4", "5", "6", "7", "8", "9">>

(* str(n) for n >= 0 *)
RECURSIVE Digits(_)
Digits(n) ==
    IF n < 10 THEN <<DigitChars[n + 1]>>
    ELSE Digits(n \div 10) \o <<DigitChars[(n % 10) + 1]>>

(* int(s) for a string without sign and blanks: ValueError unless s is a
   non-empty string of digits *)
RECURSIVE DigitsValue(_)
DigitsValue(chars) ==
    IF chars = << >> THEN 0
    ELSE 10 * DigitsValue(SubSeq(chars, 1, Len(chars) - 1))
         + (CHOOSE d \in 0..9 : DigitChars[d + 1] = chars[Len(chars)])

ParseInt(chars) ==
    IF chars = << >> \/ \E i \in 1..Len(chars) :
                           \A d \in 1..10 : DigitChars[d] # chars[i]
    THEN [raised |-> "ValueError", value |-> 0]
    ELSE [raised |-> "", value |-> DigitsValue(chars)]

ChatPrefix == <<"c", "h", "a", "t", "_">>

(* f"chat_n{abs(chat_id)}" for a negative id, f"chat_{chat_id}" otherwise *)
_get_table_name(chat_id) ==
    IF chat_id < 0
    THEN ChatPrefix \o <<"n">> \o Digits(0 - chat_id)
    ELSE ChatPrefix \o Digits(chat_id)

(* table_name.replace('chat_', ''), then -int(id_part[1:]) when it starts
   with 'n' and int(id_part) otherwise *)
_get_chat_id_from_table(table_name) ==
    LET id_part == IF Len(table_name) >= 5 /\ SubSeq(table_name, 1, 5) = ChatPrefix
                   THEN SubSeq(table_name, 6, Len(table_name))
                   ELSE table_name
    IN IF id_part # << >> /\ id_part[1] = "n"
       THEN LET r == ParseInt(Tail(id_part)) IN
            [raised |-> r.raised, value |-> 0 - r.value]
       ELSE ParseInt(id_part)

(* table_name.split('_')[1]: the characters between the first underscore
   and the next one (or the end) *)
SplitSecond(table_name) ==
    LET under == {i \in 1..Len(table_name) : table_name[i] = "_"}
        first == CHOOSE i \in under : \A j \in under : i <= j
        later == {i \in under : i > first}
        stop == IF later = {} THEN Len(table_name) + 1
                ELSE CHOOSE i \in later : \A j \in later : i <= j
    IN SubSeq(table_name, first + 1, stop - 1)

(* A get_all_chat_ids that decodes with _get_chat_id_from_table, as the
   definition at lines 77-89 does *)
get_all_chat_ids_decoding(tables) ==
    IF \E t \in tables : _get_chat_id_from_table(t).raised # ""
    THEN {}
    ELSE {_get_chat_id_from_table(t).value : t \in tables}

(* get_all_chat_ids as the class has it: the second definition (lines
   281-293) replaces the first; int(table[0].split('_')[1]) for every chat
   table, and [] when any of them raises *)
get_all_chat_ids(tables) ==
    IF \E t \in tables : ParseInt(SplitSecond(t)).raised # ""
    THEN {}
    ELSE {ParseInt(SplitSecond(t)).value : t \in tables}

ChatIds == (0 - MaxChatId)..MaxChatId

exceptNames == <<processVars, seqVars, concVars, pureVars, reg, stat, lazy,
                 limiter, pool>>

NamesInit ==
    /\ FreshProcess
    /\ IdleSeq
    /\ IdleConc
    /\ IdlePure
    /\ IdleAux

(* _ensure_chat_table(conn, chat_id): CREATE TABLE IF NOT EXISTS *)
NEnsureChatTable(chat_id) ==
    /\ \/ chat_id \in names.chats
       \/ Cardinality(names.chats) < MaxTables
    /\ names' = [tables |-> names.tables \cup {_get_table_name(chat_id)},
                 chats |-> names.chats \cup {chat_id},
                 ids |-> << >>]
    /\ UNCHANGED exceptNames

(* get_all_chat_ids(): the names LIKE 'chat_%' of sqlite_master, decoded *)
NGetAllChatIds ==
    /\ names' = [names EXCEPT !.ids = <<get_all_chat_ids(names.tables)>>]
    /\ UNCHANGED exceptNames

NamesNext ==
    \/ \E chat_id \in ChatIds : NEnsureChatTable(chat_id)
    \/ NGetAllChatIds

NamesSpec == NamesInit /\ [][NamesNext]_vars

(* C30: for every chat id, positive or negative, the table name produced by
   _get_table_name decodes back to the same chat id, and get_all_chat_ids
   returns the original chat id of every chat table in the database,
   including the chats with negative ids. *)
C30_RoundTrip ==
    /\ \A c \in names.chats :
          _get_chat_id_from_table(_get_table_name(c)) = [raised |-> "", value |-> c]
    /\ Cardinality(names.tables) = Cardinality(names.chats)
    /\ names.ids # << >> => names.ids[1] = names.chats

====
